---- MODULE Spec2Model ----
(***************************************************************************)
(* Family-tree graph engine of psan2/JSTool: the Person collection held by *)
(* the FamilyTreeContext reducer, the storage hook's CRUD operations, the  *)
(* relationship synchronizer, the eligibility resolver and the handlers of *)
(* useAncestorHandlers that drive them.                                    *)
(*                                                                         *)
(* Ids are 1..MaxIds (generateId is modelled as a fresh counter); NoId     *)
(* stands for undefined / "" / null.  An optional array field f of the     *)
(* source is a pair (hasF, f): hasF = FALSE is `undefined`, and then f is  *)
(* <<>>.  A birth year of 0 is an absent year (JavaScript treats both as   *)
(* falsy in the checks that read it).  Date.now() is a clock that advances *)
(* by one with every handler; a handler stamps all it writes with the one  *)
(* value it reads, so updatedAt = now marks the records the last handler   *)
(* wrote.                                                                  *)
(***************************************************************************)
EXTENDS Integers, Sequences, FiniteSets, TLC

VARIABLES ancestors, nextId, now, last, q

vars == <<ancestors, nextId, now, last, q>>

(* ------------------------------ bounds --------------------------------- *)
MaxIds == 3
MaxClock == 3
MaxEvents == 1

(* Smallest year the date inputs accept; 0 is an absent year or date.      *)
MinYear == 1800
MaxYear == 2024
BirthYears == {0, MinYear, MinYear + 1}
EventDates == {0, MinYear}

NoId == 0
IdSet == 1..MaxIds

(* ------------------------------ records -------------------------------- *)
LocationEvent(partnerId, date, country) ==
    [partnerId |-> partnerId, date |-> date, country |-> country]

NewPerson(id, generation, t) ==
    [id |-> id, generation |-> generation,
     hasParentIds |-> FALSE, parentIds |-> <<>>,
     birthYear |-> 0,
     hasMarriages |-> FALSE, marriages |-> <<>>,
     hasDivorces |-> FALSE, divorces |-> <<>>,
     createdAt |-> t, updatedAt |-> t]

NullPerson == NewPerson(NoId, 0, 0)

(* ------------------------------ helpers -------------------------------- *)
Includes(s, x) == \E i \in DOMAIN s : s[i] = x

RECURSIVE Filter(_, _)
Filter(s, x) ==
    IF s = <<>> THEN <<>>
    ELSE IF Head(s) = x THEN Filter(Tail(s), x)
         ELSE <<Head(s)>> \o Filter(Tail(s), x)

RECURSIVE FilterPartner(_, _)
FilterPartner(events, id) ==
    IF events = <<>> THEN <<>>
    ELSE IF Head(events).partnerId = id THEN FilterPartner(Tail(events), id)
         ELSE <<Head(events)>> \o FilterPartner(Tail(events), id)

FindIndex(all, id) ==
    IF \E i \in DOMAIN all : all[i].id = id
    THEN CHOOSE i \in DOMAIN all :
            all[i].id = id /\ \A j \in DOMAIN all : all[j].id = id => i <= j
    ELSE 0

IdsOf(all) == {all[i].id : i \in DOMAIN all}

RECURSIVE SetToSeq(_)
SetToSeq(S) ==
    IF S = {} THEN <<>>
    ELSE LET m == CHOOSE x \in S : \A y \in S : x <= y
         IN <<m>> \o SetToSeq(S \ {m})

SeqToSet(s) == {s[i] : i \in DOMAIN s}

(* ------------------------ Eligibility Resolver -------------------------- *)
(* isAncestorOf with its visited set threaded through the recursion: the   *)
(* result is [found, visited], visited being the set as the call leaves it *)
(* (the source mutates one shared Set across sibling branches).            *)
RECURSIVE isAncestorOfV(_, _, _, _)
RECURSIVE walkParents(_, _, _, _, _)
isAncestorOfV(potentialAncestor, person, allAncestors, visited) ==
    IF person.id \in visited
    THEN [found |-> FALSE, visited |-> visited]
    ELSE LET v1 == visited \cup {person.id}
         IN IF Includes(person.parentIds, potentialAncestor.id)
            THEN [found |-> TRUE, visited |-> v1]
            ELSE walkParents(potentialAncestor, person.parentIds, 1, allAncestors, v1)

walkParents(potentialAncestor, parentIds, k, allAncestors, visited) ==
    IF k > Len(parentIds)
    THEN [found |-> FALSE, visited |-> visited]
    ELSE LET i == FindIndex(allAncestors, parentIds[k])
         IN IF i = 0
            THEN walkParents(potentialAncestor, parentIds, k + 1, allAncestors, visited)
            ELSE LET r == isAncestorOfV(potentialAncestor, allAncestors[i],
                                        allAncestors, visited)
                 IN IF r.found THEN r
                    ELSE walkParents(potentialAncestor, parentIds, k + 1,
                                     allAncestors, r.visited)

(* A search that looks at the person's own parents only.                   *)
isAncestorOf_parentsOnly(potentialAncestor, person, allAncestors) ==
    Includes(person.parentIds, potentialAncestor.id)

isAncestorOf(potentialAncestor, person, allAncestors) ==
    isAncestorOfV(potentialAncestor, person, allAncestors, {}).found

isDescendantOf(potentialDescendant, person, allAncestors) ==
    isAncestorOf(person, potentialDescendant, allAncestors)

(* The filter without its lineage test.                                    *)
EligibleParent_anyLineage(potentialParent, currentPerson, allAncestors, selectedChildrenIds) ==
    /\ potentialParent.id # currentPerson.id
    /\ potentialParent.id \notin selectedChildrenIds
    /\ ~(potentialParent.generation < currentPerson.generation)

(* The filter without its generation test.                                 *)
EligibleParent_anyGeneration(potentialParent, currentPerson, allAncestors, selectedChildrenIds) ==
    /\ potentialParent.id # currentPerson.id
    /\ potentialParent.id \notin selectedChildrenIds
    /\ ~(currentPerson.id # NoId
         /\ isDescendantOf(potentialParent, currentPerson, allAncestors))

(* currentPerson = NullPerson is the form of a person not yet saved.       *)
EligibleParent(potentialParent, currentPerson, allAncestors, selectedChildrenIds) ==
    /\ potentialParent.id # currentPerson.id
    /\ potentialParent.id \notin selectedChildrenIds
    /\ ~(potentialParent.generation < currentPerson.generation)
    /\ ~(currentPerson.id # NoId
         /\ isDescendantOf(potentialParent, currentPerson, allAncestors))

getEligibleParents(currentPerson, allAncestors, selectedChildrenIds) ==
    LET keep(p) == EligibleParent(p, currentPerson, allAncestors, selectedChildrenIds)
    IN SelectSeq(allAncestors, keep)

currentAncestorBirthYear(currentPerson, birthYear) ==
    IF currentPerson.birthYear # 0 THEN currentPerson.birthYear ELSE birthYear

(* The filter without its first test (the person itself).                  *)
EligibleChild_allowSelf(potentialChild, currentPerson, allAncestors, selectedParentIds, marriages, divorces, birthYear) ==
    /\ potentialChild.id \notin selectedParentIds
    /\ ~(\E i \in DOMAIN marriages : marriages[i].partnerId = potentialChild.id)
    /\ ~(\E i \in DOMAIN divorces : divorces[i].partnerId = potentialChild.id)
    /\ ~(potentialChild.generation > currentPerson.generation)
    /\ ~(currentPerson.id # NoId
         /\ isAncestorOf(potentialChild, currentPerson, allAncestors))
    /\ ~(/\ currentAncestorBirthYear(currentPerson, birthYear) # 0
         /\ potentialChild.birthYear # 0
         /\ potentialChild.birthYear <= currentAncestorBirthYear(currentPerson, birthYear))

(* The filter with a strict generation test (>= in place of >).            *)
EligibleChild_strictGeneration(potentialChild, currentPerson, allAncestors, selectedParentIds, marriages, divorces, birthYear) ==
    /\ potentialChild.id # currentPerson.id
    /\ potentialChild.id \notin selectedParentIds
    /\ ~(\E i \in DOMAIN marriages : marriages[i].partnerId = potentialChild.id)
    /\ ~(\E i \in DOMAIN divorces : divorces[i].partnerId = potentialChild.id)
    /\ ~(potentialChild.generation >= currentPerson.generation)
    /\ ~(currentPerson.id # NoId
         /\ isAncestorOf(potentialChild, currentPerson, allAncestors))
    /\ ~(/\ currentAncestorBirthYear(currentPerson, birthYear) # 0
         /\ potentialChild.birthYear # 0
         /\ potentialChild.birthYear <= currentAncestorBirthYear(currentPerson, birthYear))

EligibleChild(potentialChild, currentPerson, allAncestors, selectedParentIds, marriages, divorces, birthYear) ==
    /\ potentialChild.id # currentPerson.id
    /\ potentialChild.id \notin selectedParentIds
    /\ ~(\E i \in DOMAIN marriages : marriages[i].partnerId = potentialChild.id)
    /\ ~(\E i \in DOMAIN divorces : divorces[i].partnerId = potentialChild.id)
    /\ ~(potentialChild.generation > currentPerson.generation)
    /\ ~(currentPerson.id # NoId
         /\ isAncestorOf(potentialChild, currentPerson, allAncestors))
    /\ ~(/\ currentAncestorBirthYear(currentPerson, birthYear) # 0
         /\ potentialChild.birthYear # 0
         /\ potentialChild.birthYear <= currentAncestorBirthYear(currentPerson, birthYear))

getEligibleChildren(currentPerson, allAncestors, selectedParentIds, marriages, divorces, birthYear) ==
    LET keep(c) == EligibleChild(c, currentPerson, allAncestors, selectedParentIds,
                                 marriages, divorces, birthYear)
    IN SelectSeq(allAncestors, keep)

(* ---------------------- Relationship Synchronizer ----------------------- *)
(* One forEach pass of updateBidirectionalRelationships over the list      *)
(* `events` of changedAncestor; kind is "marriages" or "divorces".         *)
EventsOf(person, kind) ==
    IF kind = "marriages" THEN person.marriages ELSE person.divorces

WithEvents(person, kind, events, t) ==
    IF kind = "marriages"
    THEN [person EXCEPT !.hasMarriages = TRUE, !.marriages = events, !.updatedAt = t]
    ELSE [person EXCEPT !.hasDivorces = TRUE, !.divorces = events, !.updatedAt = t]

(* A reciprocal that keeps the partner and country but not the date.       *)
reciprocalEvent_noDate(event, changedAncestor) ==
    LocationEvent(changedAncestor.id, 0, event.country)

reciprocalEvent(event, changedAncestor) ==
    [event EXCEPT !.partnerId = changedAncestor.id]

(* An existence test keyed on the event's partner instead of the changed   *)
(* person.                                                                 *)
hasExistingEvent_wrongId(partnerEvents, event, changedAncestor) ==
    \E i \in DOMAIN partnerEvents : partnerEvents[i].partnerId = event.partnerId

hasExistingEvent(partnerEvents, event, changedAncestor) ==
    \E i \in DOMAIN partnerEvents : partnerEvents[i].partnerId = changedAncestor.id

RECURSIVE syncEvents(_, _, _, _, _, _)
syncEvents(updatedAncestors, events, k, kind, changedAncestor, t) ==
    IF k > Len(events) THEN updatedAncestors
    ELSE LET event == events[k]
             partnerIndex == FindIndex(updatedAncestors, event.partnerId)
         IN IF event.partnerId = NoId \/ partnerIndex = 0
            THEN syncEvents(updatedAncestors, events, k + 1, kind, changedAncestor, t)
            ELSE LET partner == updatedAncestors[partnerIndex]
                     partnerEvents == EventsOf(partner, kind)
                 IN IF hasExistingEvent(partnerEvents, event, changedAncestor)
                    THEN syncEvents(updatedAncestors, events, k + 1, kind,
                                    changedAncestor, t)
                    ELSE syncEvents(
                           [updatedAncestors EXCEPT ![partnerIndex] =
                              WithEvents(partner, kind,
                                 Append(partnerEvents,
                                        reciprocalEvent(event, changedAncestor)), t)],
                           events, k + 1, kind, changedAncestor, t)

updateBidirectionalRelationships(ancestorList, changedAncestor, t) ==
    LET afterMarriages ==
            IF changedAncestor.hasMarriages
            THEN syncEvents(ancestorList, changedAncestor.marriages, 1,
                            "marriages", changedAncestor, t)
            ELSE ancestorList
    IN IF changedAncestor.hasDivorces
       THEN syncEvents(afterMarriages, changedAncestor.divorces, 1,
                       "divorces", changedAncestor, t)
       ELSE afterMarriages

(* ----------------------------- Graph Store ------------------------------ *)
(* addAncestor: the new record, and the collection it dispatches.          *)
newAncestorOf(ancestorData, id, t) ==
    [ancestorData EXCEPT !.id = id, !.createdAt = t, !.updatedAt = t]

addAncestor(all, ancestorData, id, t) ==
    updateBidirectionalRelationships(
        Append(all, newAncestorOf(ancestorData, id, t)),
        newAncestorOf(ancestorData, id, t), t)

(* updateAncestor(id, {parentIds}, currentAncestors) as handleAddParent    *)
(* calls it; an unknown id returns null and dispatches nothing.            *)
updateAncestor(ancestorsToUse, id, parentIds, t) ==
    LET i == FindIndex(ancestorsToUse, id)
        updatedAncestor ==
            [ancestorsToUse[i] EXCEPT !.hasParentIds = TRUE,
                                      !.parentIds = parentIds, !.updatedAt = t]
    IN IF i = 0 THEN ancestorsToUse
       ELSE updateBidirectionalRelationships(
               [j \in DOMAIN ancestorsToUse |->
                   IF ancestorsToUse[j].id = id THEN updatedAncestor
                   ELSE ancestorsToUse[j]],
               updatedAncestor, t)

(* A clean-up that strips the deleted id from parentIds only.              *)
cleanReferences_parentsOnly(ancestor, deletedId, t) ==
    LET touchParents == Includes(ancestor.parentIds, deletedId)
        kept == Filter(ancestor.parentIds, deletedId)
    IN IF ~touchParents THEN ancestor
       ELSE [ancestor EXCEPT !.hasParentIds = kept # <<>>, !.parentIds = kept,
                             !.updatedAt = t]

(* familyTreeReducer, DELETE_ANCESTOR: the clean-up of one remaining record *)
cleanReferences(ancestor, deletedId, t) ==
    LET touchParents == Includes(ancestor.parentIds, deletedId)
        changed == touchParents \/ ancestor.hasMarriages \/ ancestor.hasDivorces
        kept == Filter(ancestor.parentIds, deletedId)
    IN IF ~changed THEN ancestor
       ELSE [ancestor EXCEPT
               !.hasParentIds = IF touchParents THEN kept # <<>> ELSE @,
               !.parentIds = IF touchParents THEN kept ELSE @,
               !.marriages = FilterPartner(@, deletedId),
               !.divorces = FilterPartner(@, deletedId),
               !.updatedAt = t]

RECURSIVE deleteReducer(_, _, _)
deleteReducer(all, deletedId, t) ==
    IF all = <<>> THEN <<>>
    ELSE IF Head(all).id = deletedId THEN deleteReducer(Tail(all), deletedId, t)
         ELSE <<cleanReferences(Head(all), deletedId, t)>>
                 \o deleteReducer(Tail(all), deletedId, t)

(* ------------------------------ TypeGuards ------------------------------ *)
(* JSON.stringify / JSON.parse of one record: every key that is defined,   *)
(* the id among them; a foreign document may lack the id.                  *)
toJson(person) ==
    [f \in DOMAIN person \cup {"hasId"} |-> IF f = "hasId" THEN TRUE ELSE person[f]]

fromJson(json) == [f \in DOMAIN json \ {"hasId"} |-> json[f]]

isPartialDate(year) == year = 0 \/ (year >= MinYear /\ year <= MaxYear)

isLocationEvent(event) == isPartialDate(event.date)

isAncestor(value) ==
    /\ value.hasId
    /\ isPartialDate(value.birthYear)
    /\ \A i \in DOMAIN value.marriages : isLocationEvent(value.marriages[i])
    /\ \A i \in DOMAIN value.divorces : isLocationEvent(value.divorces[i])

(* ------------------------- the person form ------------------------------ *)
(* What the form submits: the selected parents (undefined when none), the  *)
(* birth year, the marriage and divorce lists (always arrays) and the      *)
(* selected children.                                                      *)
FormData(parentIds, birthYear, marriages, divorces, selectedChildrenIds) ==
    [parentIds |-> parentIds, birthYear |-> birthYear, marriages |-> marriages,
     divorces |-> divorces, selectedChildrenIds |-> selectedChildrenIds]

(* The partner selector of an event entry offers every person but the one  *)
(* being edited, and "no partner".                                         *)
PartnerChoices(all, currentPerson) == (IdsOf(all) \ {currentPerson.id}) \cup {NoId}

EventLists(partners) ==
    {<<>>} \cup
    UNION {[1..n -> {LocationEvent(p, d, 0) : p \in partners, d \in EventDates}] : n \in 1..MaxEvents}

(* The selections the form offers: parents among getEligibleParents given  *)
(* the children already ticked, children among getEligibleChildren given   *)
(* the parents already ticked and the pending events and birth year.       *)
FormOffers(currentPerson, all, form) ==
    /\ SeqToSet(form.parentIds) \subseteq
          IdsOf(getEligibleParents(currentPerson, all, form.selectedChildrenIds))
    /\ form.selectedChildrenIds \subseteq
          IdsOf(getEligibleChildren(currentPerson, all, SeqToSet(form.parentIds),
                                    form.marriages, form.divorces, form.birthYear))

(* Every submission the form allows, for birth years drawn from `years`.    *)
Forms(currentPerson, all, years) ==
    LET partners == PartnerChoices(all, currentPerson)
        events == {md \in EventLists(partners) \X EventLists(partners) :
                      Len(md[1]) + Len(md[2]) <= MaxEvents}
        candidates ==
            UNION {UNION {{FormData(SetToSeq(P), y, md[1], md[2], C) :
                             C \in SUBSET (IdsOf(all) \ P)} :
                          P \in SUBSET IdsOf(getEligibleParents(currentPerson, all, {}))} :
                   <<y, md>> \in years \X events}
    IN {f \in candidates : FormOffers(currentPerson, all, f)}

(* ----------------------- handleSaveAncestor ----------------------------- *)
(* {...existing, ...cleanAncestorData, updatedAt}                          *)
mergeForm(existing, form, t) ==
    [existing EXCEPT !.hasParentIds = form.parentIds # <<>>,
                     !.parentIds = form.parentIds,
                     !.birthYear = form.birthYear,
                     !.hasMarriages = TRUE, !.marriages = form.marriages,
                     !.hasDivorces = TRUE, !.divorces = form.divorces,
                     !.updatedAt = t]

(* Child updates that also move a newly linked child to the generation     *)
(* below the saved person.                                                 *)
applyChildUpdates_regenerate(working, savedId, selectedChildrenIds, handleRemoved, t) ==
    [i \in DOMAIN working |->
        LET child == working[i]
            kept == Filter(child.parentIds, savedId)
        IN IF i # FindIndex(working, child.id) THEN child
           ELSE IF handleRemoved /\ Includes(child.parentIds, savedId)
                   /\ child.id \notin selectedChildrenIds
           THEN [child EXCEPT !.hasParentIds = kept # <<>>, !.parentIds = kept,
                              !.updatedAt = t]
           ELSE IF child.id \in selectedChildrenIds
                   /\ isAncestor(toJson(child))
                   /\ ~Includes(child.parentIds, savedId)
           THEN [child EXCEPT !.hasParentIds = TRUE,
                              !.parentIds = Append(@, savedId), !.updatedAt = t,
                              !.generation = working[FindIndex(working, savedId)].generation - 1]
           ELSE child]

(* The childUpdates map applied to the working list: a selected child that *)
(* passes TypeGuards.isAncestor and lacks the saved id gains it; with      *)
(* removals handled (the edit branch), a current child that is no longer   *)
(* selected loses it.                                                      *)
applyChildUpdates(working, savedId, selectedChildrenIds, handleRemoved, t) ==
    [i \in DOMAIN working |->
        LET child == working[i]
            kept == Filter(child.parentIds, savedId)
        IN IF i # FindIndex(working, child.id) THEN child
           ELSE IF handleRemoved /\ Includes(child.parentIds, savedId)
                   /\ child.id \notin selectedChildrenIds
           THEN [child EXCEPT !.hasParentIds = kept # <<>>, !.parentIds = kept,
                              !.updatedAt = t]
           ELSE IF child.id \in selectedChildrenIds
                   /\ isAncestor(toJson(child))
                   /\ ~Includes(child.parentIds, savedId)
           THEN [child EXCEPT !.hasParentIds = TRUE,
                              !.parentIds = Append(@, savedId), !.updatedAt = t]
           ELSE child]

saveExisting(all, editingId, form, t) ==
    LET ancestorIndex == FindIndex(all, editingId)
        savedAncestor == mergeForm(all[ancestorIndex], form, t)
        working == [all EXCEPT ![ancestorIndex] = savedAncestor]
    IN updateBidirectionalRelationships(
           applyChildUpdates(working, editingId, form.selectedChildrenIds, TRUE, t),
           savedAncestor, t)

saveNew(all, id, form, t) ==
    LET ancestorWithGeneration == mergeForm(NewPerson(id, 0, t), form, t)
        savedAncestor == newAncestorOf(ancestorWithGeneration, id, t)
        working == addAncestor(all, ancestorWithGeneration, id, t)
    IN updateBidirectionalRelationships(
           applyChildUpdates(working, id, form.selectedChildrenIds, FALSE, t),
           savedAncestor, t)

(* ------------------ handleAddParent / handleAddChild -------------------- *)
(* A parent created at the child's own generation.                         *)
addParentOf_sameGeneration(all, childId, id, t) ==
    LET child == all[FindIndex(all, childId)]
        afterAdd == addAncestor(all, NewPerson(id, child.generation, t), id, t)
        childInUpdated == afterAdd[FindIndex(afterAdd, childId)]
    IN updateAncestor(afterAdd, childId, Append(childInUpdated.parentIds, id), t)

addParentOf(all, childId, id, t) ==
    LET child == all[FindIndex(all, childId)]
        afterAdd == addAncestor(all, NewPerson(id, child.generation + 1, t), id, t)
        childInUpdated == afterAdd[FindIndex(afterAdd, childId)]
    IN updateAncestor(afterAdd, childId, Append(childInUpdated.parentIds, id), t)

addChildOf(all, parentId, id, t) ==
    LET i == FindIndex(all, parentId)
        childGeneration == IF i # 0 THEN all[i].generation - 1 ELSE -1
        childData == [NewPerson(id, childGeneration, t) EXCEPT
                        !.hasParentIds = TRUE, !.parentIds = <<parentId>>]
    IN addAncestor(all, childData, id, t)

(* ------------------------------ actions --------------------------------- *)
(* `last` records the handler that ran last: its name, the id it was given, *)
(* the id it created, and how the collection referred to a deleted id.     *)
ReferencesTo(all, id) ==
    {"parentRef" : i \in {j \in DOMAIN all : all[j].id # id /\ Includes(all[j].parentIds, id)}}
    \cup {"partnerRef" : i \in {j \in DOMAIN all : all[j].id # id /\
                (\E k \in DOMAIN all[j].marriages : all[j].marriages[k].partnerId = id)}}

Mark(op, id, newId, tags) == [op |-> op, id |-> id, newId |-> newId, tags |-> tags]

Query(fn, person, excluded, marriages, divorces, birthYear, result) ==
    [fn |-> fn, person |-> person, excluded |-> excluded, marriages |-> marriages,
     divorces |-> divorces, birthYear |-> birthYear, result |-> result]

Idle == Query("idle", NullPerson, {}, <<>>, <<>>, 0, <<>>)

Init ==
    /\ ancestors = <<NewPerson(1, 0, 0)>>
    /\ nextId = 2
    /\ now = 0
    /\ last = Mark("init", NoId, NoId, {})
    /\ q = Idle

Tick == now < MaxClock /\ now' = now + 1

HandleSaveEdit ==
    /\ Tick
    /\ \E i \in DOMAIN ancestors :
      \E form \in Forms(ancestors[i], ancestors, {0}) :
        /\ ancestors' = saveExisting(ancestors, ancestors[i].id, form, now')
        /\ last' = Mark("saveEdit", ancestors[i].id, NoId, {})
        /\ UNCHANGED <<nextId, q>>

HandleSaveNew ==
    /\ Tick
    /\ nextId <= MaxIds
    /\ \E form \in Forms(NullPerson, ancestors, {0}) :
        /\ ancestors' = saveNew(ancestors, nextId, form, now')
        /\ nextId' = nextId + 1
        /\ last' = Mark("saveNew", NoId, nextId, {})
        /\ q' = q

HandleAddParent ==
    /\ Tick
    /\ nextId <= MaxIds
    /\ \E i \in DOMAIN ancestors :
        /\ ancestors' = addParentOf(ancestors, ancestors[i].id, nextId, now')
        /\ nextId' = nextId + 1
        /\ last' = Mark("addParent", ancestors[i].id, nextId, {})
        /\ q' = q

HandleAddChild ==
    /\ Tick
    /\ nextId <= MaxIds
    /\ \E i \in DOMAIN ancestors :
        /\ ancestors' = addChildOf(ancestors, ancestors[i].id, nextId, now')
        /\ nextId' = nextId + 1
        /\ last' = Mark("addChild", ancestors[i].id, nextId, {})
        /\ q' = q

HandleDeleteAncestor ==
    /\ Tick
    /\ \E i \in DOMAIN ancestors :
        /\ ancestors' = deleteReducer(ancestors, ancestors[i].id, now')
        /\ last' = Mark("delete", ancestors[i].id, NoId, ReferencesTo(ancestors, ancestors[i].id))
        /\ UNCHANGED <<nextId, q>>

HandleClearAll ==
    /\ Tick
    /\ nextId <= MaxIds
    /\ ancestors' = <<NewPerson(nextId, 0, now')>>
    /\ nextId' = nextId + 1
    /\ last' = Mark("clear", NoId, nextId, {})
    /\ q' = q

Next ==
    \/ HandleSaveEdit
    \/ HandleSaveNew
    \/ HandleAddParent
    \/ HandleAddChild
    \/ HandleDeleteAncestor
    \/ HandleClearAll

Spec == Init /\ [][Next]_vars

(* ---------------- the eligibility resolver on its own ------------------- *)
(* Collections of 1..MaxIds persons with ids 1..n, any generation in 0..1, *)
(* any set of parent ids (self-loops, cycles and ids of missing persons    *)
(* included), and any birth year on the persons without parents.           *)
PersonShape(id, generation, parents, year) ==
    [NewPerson(id, generation, 0) EXCEPT
        !.hasParentIds = parents # {}, !.parentIds = SetToSeq(parents),
        !.birthYear = year]

PersonShapes(id) ==
    {PersonShape(id, g, P, 0) : g \in 0..1, P \in SUBSET IdSet}
    \cup {PersonShape(id, g, {}, y) : g \in 0..1, y \in BirthYears}

EligCollections ==
    UNION {{c \in [1..n -> UNION {PersonShapes(id) : id \in 1..n}] :
               \A i \in 1..n : c[i].id = i} : n \in 1..MaxIds}

ExcludedChoices == {{}, {1}}
PendingMarriages == {<<>>, <<LocationEvent(2, 0, 0)>>}
PendingDivorces == {<<>>, <<LocationEvent(MaxIds, 0, 0)>>}

InitElig ==
    /\ ancestors \in EligCollections
    /\ nextId = MaxIds + 1
    /\ now = 0
    /\ last = Mark("init", NoId, NoId, {})
    /\ q = Idle

PersonsOrNull(all) == {all[i] : i \in DOMAIN all} \cup {NullPerson}

QueryParents ==
    /\ q.fn = "idle"
    /\ \E person \in PersonsOrNull(ancestors), excluded \in ExcludedChoices :
          q' = Query("parents", person, excluded, <<>>, <<>>, 0,
                     getEligibleParents(person, ancestors, excluded))
    /\ UNCHANGED <<ancestors, nextId, now, last>>

QueryChildren ==
    /\ q.fn = "idle"
    /\ \E person \in PersonsOrNull(ancestors), excluded \in ExcludedChoices,
          m \in PendingMarriages, d \in PendingDivorces, y \in BirthYears :
          q' = Query("children", person, excluded, m, d, y,
                     getEligibleChildren(person, ancestors, excluded, m, d, y))
    /\ UNCHANGED <<ancestors, nextId, now, last>>

NextElig == QueryParents \/ QueryChildren

SpecElig == InitElig /\ [][NextElig]_vars

(* ======================= properties: eligibility ======================== *)
(* The parent relation read off the records, independently of the          *)
(* resolver's search: the ids reachable from id by one or more parentIds   *)
(* steps.                                                                  *)
ParentsIn(all, S) ==
    UNION {SeqToSet(all[i].parentIds) : i \in {j \in DOMAIN all : all[j].id \in S}}

RECURSIVE ReachUp(_, _)
ReachUp(all, S) ==
    IF ParentsIn(all, S) \subseteq S THEN S ELSE ReachUp(all, S \cup ParentsIn(all, S))

AncestorIdsOf(all, id) == ReachUp(all, ParentsIn(all, {id}))

Persons(all) == {all[i] : i \in DOMAIN all}

(* C5 as claimed: eligibleParents is the set of p with p # person, p not   *)
(* excluded, p.generation >= person.generation and person not a descendant *)
(* of p.                                                                   *)
C5_AsClaimed ==
    (q.fn = "parents" /\ q.person.id # NoId) =>
        IdsOf(q.result) =
            {p.id : p \in {c \in Persons(ancestors) :
                /\ c.id # q.person.id
                /\ c.id \notin q.excluded
                /\ c.generation >= q.person.generation
                /\ c.id \notin AncestorIdsOf(ancestors, q.person.id)}}

(* C5 amended: the last condition is that p is not a descendant of person  *)
(* (person is not an ancestor of p).                                       *)
C5_EligibleParents ==
    (q.fn = "parents" /\ q.person.id # NoId) =>
        IdsOf(q.result) =
            {p.id : p \in {c \in Persons(ancestors) :
                /\ c.id # q.person.id
                /\ c.id \notin q.excluded
                /\ c.generation >= q.person.generation
                /\ q.person.id \notin AncestorIdsOf(ancestors, c.id)}}

(* A query whose answer keeps an existing ancestor and drops a descendant  *)
(* of equal generation.                                                    *)
C5_Witness ==
    /\ q.fn = "parents" /\ q.person.id # NoId
    /\ \E a \in Persons(q.result) : a.id \in AncestorIdsOf(ancestors, q.person.id)
    /\ \E d \in Persons(ancestors) :
          /\ d.id # q.person.id /\ d.id \notin q.excluded
          /\ d.generation >= q.person.generation
          /\ q.person.id \in AncestorIdsOf(ancestors, d.id)
          /\ d.id \notin IdsOf(q.result)

SpouseIds(events) == {events[i].partnerId : i \in DOMAIN events}

KnownYear(person, birthYear) ==
    IF person.birthYear # 0 THEN person.birthYear ELSE birthYear

(* C6 as claimed: eligibleChildren is the set of c with c # person, c not  *)
(* excluded, c no pending spouse, c.generation <= person.generation,       *)
(* person not an ancestor of c, and c born after person when both years    *)
(* are known.                                                              *)
C6_AsClaimed ==
    (q.fn = "children" /\ q.person.id # NoId) =>
        IdsOf(q.result) =
            {p.id : p \in {c \in Persons(ancestors) :
                /\ c.id # q.person.id
                /\ c.id \notin q.excluded
                /\ c.id \notin SpouseIds(q.marriages) \cup SpouseIds(q.divorces)
                /\ c.generation <= q.person.generation
                /\ q.person.id \notin AncestorIdsOf(ancestors, c.id)
                /\ (KnownYear(q.person, q.birthYear) # 0 /\ c.birthYear # 0)
                      => c.birthYear > KnownYear(q.person, q.birthYear)}}

(* C6 amended: the ancestry condition is that c is not an ancestor of      *)
(* person; person's year is the stored one or, failing that, the override. *)
C6_EligibleChildren ==
    q.fn = "children" =>
        IdsOf(q.result) =
            {p.id : p \in {c \in Persons(ancestors) :
                /\ c.id # q.person.id
                /\ c.id \notin q.excluded
                /\ c.id \notin SpouseIds(q.marriages) \cup SpouseIds(q.divorces)
                /\ c.generation <= q.person.generation
                /\ (q.person.id # NoId => c.id \notin AncestorIdsOf(ancestors, q.person.id))
                /\ (KnownYear(q.person, q.birthYear) # 0 /\ c.birthYear # 0)
                      => c.birthYear > KnownYear(q.person, q.birthYear)}}

(* A query whose answer keeps a descendant and drops an ancestor of equal   *)
(* generation.                                                             *)
C6_Witness ==
    /\ q.fn = "children" /\ q.person.id # NoId
    /\ \E d \in Persons(q.result) : q.person.id \in AncestorIdsOf(ancestors, d.id)
    /\ \E a \in Persons(ancestors) :
          /\ a.id # q.person.id /\ a.id \notin q.excluded
          /\ a.id \notin SpouseIds(q.marriages) \cup SpouseIds(q.divorces)
          /\ a.generation = q.person.generation
          /\ a.id \in AncestorIdsOf(ancestors, q.person.id)
          /\ a.id \notin IdsOf(q.result)

(* Chains p1 -> p2 -> p3 in the collection, for a query about `top`.       *)
ChainsTo(all, bottom, top) ==
    \E p2 \in Persons(all) :
        /\ Includes(bottom.parentIds, p2.id)
        /\ Includes(p2.parentIds, top.id)
        /\ bottom.generation <= p2.generation
        /\ p2.generation <= top.generation

PlainChildrenQuery ==
    /\ q.fn = "children" /\ q.person.id # NoId
    /\ q.excluded = {} /\ q.marriages = <<>> /\ q.divorces = <<>> /\ q.birthYear = 0

(* C7 as claimed: for a chain p1 -> p2 -> p3, isAncestorOf(p3, p1) and     *)
(* eligibleChildren(p3) does not contain p1.                               *)
C7_AsClaimed ==
    PlainChildrenQuery =>
        \A p1 \in Persons(ancestors) :
            (ChainsTo(ancestors, p1, q.person) /\ p1.birthYear = 0 /\ q.person.birthYear = 0)
            => /\ isAncestorOf(q.person, p1, ancestors)
               /\ p1.id \notin IdsOf(q.result)

(* C7 amended: for a chain p1 -> p2 -> p3, isAncestorOf(p3, p1) and        *)
(* eligibleChildren(p1) does not contain p3.                               *)
C7_Chain ==
    PlainChildrenQuery =>
        \A p3 \in Persons(ancestors) :
            (ChainsTo(ancestors, q.person, p3) /\ p3.birthYear = 0 /\ q.person.birthYear = 0)
            => /\ isAncestorOf(p3, q.person, ancestors)
               /\ p3.id \notin IdsOf(q.result)

(* A chain of three distinct persons of one generation, queried at the     *)
(* bottom: only the ancestry check keeps the top out.                      *)
C7_Witness ==
    /\ PlainChildrenQuery
    /\ \E p3 \in Persons(ancestors) :
          /\ ChainsTo(ancestors, q.person, p3)
          /\ p3.id # q.person.id
          /\ p3.generation = q.person.generation
          /\ ~Includes(q.person.parentIds, p3.id)
          /\ p3.id \notin IdsOf(q.result)

(* ========================= properties: the store ======================== *)
PersonById(all, id) == all[FindIndex(all, id)]

(* C1: the parent relation is acyclic in every reachable state.            *)
C1_Acyclic ==
    \A p \in Persons(ancestors) : p.id \notin AncestorIdsOf(ancestors, p.id)

(* C2: no Person's parentIds contains the Person's own id.                 *)
C2_NoSelfParent ==
    \A p \in Persons(ancestors) : ~Includes(p.parentIds, p.id)

(* An edit saved for a person that now has a parent and a child.           *)
C2_Witness ==
    /\ last.op = "saveEdit"
    /\ PersonById(ancestors, last.id).parentIds # <<>>
    /\ \E c \in Persons(ancestors) : Includes(c.parentIds, last.id)

(* C3: every marriage or divorce Event naming a present partner has a      *)
(* reciprocal Event on that partner.                                       *)
C3_Reciprocal ==
    \A a \in Persons(ancestors) : \A kind \in {"marriages", "divorces"} :
        \A k \in DOMAIN EventsOf(a, kind) :
            LET b == EventsOf(a, kind)[k].partnerId
            IN b \in IdsOf(ancestors) =>
                  \E j \in DOMAIN EventsOf(PersonById(ancestors, b), kind) :
                      EventsOf(PersonById(ancestors, b), kind)[j].partnerId = a.id

KeepIds(s, x) == LET keep(y) == y # x IN SelectSeq(s, keep)

KeepEvents(events, x) == LET keep(e) == e.partnerId # x IN SelectSeq(events, keep)

IdSeq(all) == [i \in DOMAIN all |-> all[i].id]

DeleteCascade(before, after, x) ==
    /\ x \notin IdsOf(after)
    /\ IdSeq(after) = KeepIds(IdSeq(before), x)
    /\ \A r \in Persons(after) :
          LET b == PersonById(before, r.id)
          IN /\ r.parentIds = KeepIds(b.parentIds, x)
             /\ (Includes(b.parentIds, x) /\ r.parentIds = <<>>) => ~r.hasParentIds
             /\ r.marriages = KeepEvents(b.marriages, x)
             /\ r.divorces = KeepEvents(b.divorces, x)

(* C4: delete(X) removes X, drops X from every parentIds (no parentIds     *)
(* left where it would be empty) and every Event naming X, and keeps the   *)
(* other entries in their order.                                           *)
C4_DeleteCascade ==
    [][last'.op = "delete" => DeleteCascade(ancestors, ancestors', last'.id)]_vars

(* A delete of a person who was the only parent of one person and the      *)
(* marriage partner of one.                                                *)
C4_Witness ==
    /\ last.op = "delete"
    /\ last.tags = {"parentRef", "partnerRef"}
    /\ \E r \in Persons(ancestors) :
          ~r.hasParentIds /\ r.hasMarriages /\ r.marriages = <<>> /\ r.updatedAt = now

AddParentPost(before, after, x, n) ==
    /\ n \in IdsOf(after) /\ n \notin IdsOf(before)
    /\ PersonById(after, n).generation = PersonById(before, x).generation + 1
    /\ SeqToSet(PersonById(after, x).parentIds)
          = SeqToSet(PersonById(before, x).parentIds) \cup {n}
    /\ x \in IdsOf(getEligibleChildren(PersonById(after, n), after, {}, <<>>, <<>>, 0))
    /\ x \notin IdsOf(getEligibleParents(PersonById(after, n), after, {}))

(* C8: addParent(X) adds N one generation above X, appends N to X's        *)
(* parents, makes X an eligible child of N and not an eligible parent.     *)
C8_AddParent ==
    [][last'.op = "addParent" => AddParentPost(ancestors, ancestors', last'.id, last'.newId)]_vars

(* An addParent for a person that already had a parent.                    *)
C8_Witness ==
    /\ last.op = "addParent"
    /\ Len(PersonById(ancestors, last.id).parentIds) >= 2
    /\ PersonById(ancestors, last.newId).generation
          = PersonById(ancestors, last.id).generation + 1

SavedId == IF last.op = "saveEdit" THEN last.id ELSE last.newId

SameData(e, f) == e.date = f.date /\ e.country = f.country

(* C9 as claimed: after a save, every marriage (divorce) Event of the      *)
(* saved person naming a present partner has, on that partner, an Event    *)
(* naming the saved person with the same date and country.                 *)
C9_AsClaimed ==
    last.op \in {"saveEdit", "saveNew"} =>
        \A kind \in {"marriages", "divorces"} :
            \A k \in DOMAIN EventsOf(PersonById(ancestors, SavedId), kind) :
                LET e == EventsOf(PersonById(ancestors, SavedId), kind)[k]
                IN (e.partnerId \in IdsOf(ancestors) /\ e.partnerId # SavedId) =>
                      \E j \in DOMAIN EventsOf(PersonById(ancestors, e.partnerId), kind) :
                          LET f == EventsOf(PersonById(ancestors, e.partnerId), kind)[j]
                          IN f.partnerId = SavedId /\ SameData(e, f)

FirstNaming(events, id) ==
    events[CHOOSE k \in DOMAIN events :
              events[k].partnerId = id /\ \A j \in DOMAIN events : events[j].partnerId = id => k <= j]

Names(events, id) == \E k \in DOMAIN events : events[k].partnerId = id

ReciprocalPost(before, after, a, t) ==
    \A kind \in {"marriages", "divorces"} : \A b \in IdsOf(after) \ {a} :
        Names(EventsOf(PersonById(after, a), kind), b) =>
            /\ Names(EventsOf(PersonById(after, b), kind), a)
            /\ ~Names(EventsOf(PersonById(before, b), kind), a) =>
                  /\ EventsOf(PersonById(after, b), kind)
                        = Append(EventsOf(PersonById(before, b), kind),
                                 [FirstNaming(EventsOf(PersonById(after, a), kind), b)
                                     EXCEPT !.partnerId = a])
                  /\ PersonById(after, b).updatedAt = t

(* C9 amended: the partner holds an Event naming the saved person; when it *)
(* held none before the save, the Event appended is the copy of the saved  *)
(* person's first Event naming the partner and the partner is stamped.     *)
C9_Reciprocity ==
    [][last'.op \in {"saveEdit", "saveNew"} =>
          ReciprocalPost(ancestors, ancestors',
                         IF last'.op = "saveEdit" THEN last'.id ELSE last'.newId, now')]_vars

(* A save that put a dated marriage on a person and its copy on the        *)
(* partner.                                                                *)
C9_Witness ==
    /\ last.op \in {"saveEdit", "saveNew"}
    /\ \E k \in DOMAIN PersonById(ancestors, SavedId).marriages :
          LET e == PersonById(ancestors, SavedId).marriages[k]
          IN /\ e.partnerId \in IdsOf(ancestors) /\ e.date # 0
             /\ PersonById(ancestors, e.partnerId).updatedAt = now
             /\ \E j \in DOMAIN PersonById(ancestors, e.partnerId).marriages :
                   PersonById(ancestors, e.partnerId).marriages[j]
                      = [e EXCEPT !.partnerId = SavedId]

(* ------------------- the synchronizer on its own ------------------------ *)
(* Collections of 1..MaxIds persons whose marriage and divorce lists are   *)
(* undefined or any list of Events naming an id in 0..MaxIds (no partner,  *)
(* the person itself, another person, a missing person); the first person  *)
(* may hold one marriage more than the others.                             *)
EventSeqs(n) ==
    UNION {[1..k -> {LocationEvent(p, 0, 0) : p \in 0..MaxIds}] : k \in 0..n}

OptionalEvents(n) == {<<FALSE, <<>>>>} \cup {<<TRUE, l>> : l \in EventSeqs(n)}

SyncShape(id, m, d) ==
    [NewPerson(id, 0, 0) EXCEPT !.hasMarriages = m[1], !.marriages = m[2],
                                !.hasDivorces = d[1], !.divorces = d[2]]

SyncShapes(id) ==
    {SyncShape(id, m, d) :
        m \in OptionalEvents(IF id = 1 THEN MaxEvents + 1 ELSE MaxEvents),
        d \in OptionalEvents(MaxEvents)}

SyncCollections ==
    UNION {{c \in [1..n -> UNION {SyncShapes(id) : id \in 1..n}] :
               \A i \in 1..n : c[i].id = i} : n \in 1..MaxIds}

InitSync ==
    /\ ancestors \in SyncCollections
    /\ nextId = MaxIds + 1
    /\ now = 0
    /\ last = Mark("init", NoId, NoId, {})
    /\ q = Idle

ApplySync ==
    /\ q.fn = "idle"
    /\ \E i \in DOMAIN ancestors :
          q' = Query("sync", ancestors[i], {}, <<>>, <<>>, 0,
                     updateBidirectionalRelationships(ancestors, ancestors[i], 1))
    /\ UNCHANGED <<ancestors, nextId, now, last>>

NextSync == ApplySync

SpecSync == InitSync /\ [][NextSync]_vars

(* ===================== properties: the synchronizer ===================== *)
EventListsOf(all) == [i \in DOMAIN all |-> <<all[i].marriages, all[i].divorces>>]

ConsistentFor(all, person) ==
    \A kind \in {"marriages", "divorces"} : \A b \in IdsOf(all) :
        Names(EventsOf(person, kind), b) =>
            Names(EventsOf(PersonById(all, b), kind), person.id)

(* C10: sync(sync(C, P), P) has the marriages and divorces lists of        *)
(* sync(C, P), and sync(C, P) adds nothing when every partner of P already *)
(* holds an Event naming P.                                                *)
C10_Idempotent ==
    q.fn = "sync" =>
        /\ EventListsOf(updateBidirectionalRelationships(q.result, q.person, 1))
              = EventListsOf(q.result)
        /\ ConsistentFor(ancestors, q.person) => EventListsOf(q.result) = EventListsOf(ancestors)

(* A pass that appended an Event for a person holding two marriages to the *)
(* same partner.                                                           *)
C10_Witness ==
    /\ q.fn = "sync"
    /\ EventListsOf(q.result) # EventListsOf(ancestors)
    /\ \E b \in IdsOf(ancestors) \ {q.person.id} :
          /\ Cardinality({k \in DOMAIN q.person.marriages :
                             q.person.marriages[k].partnerId = b}) = 2
          /\ Len(PersonById(q.result, b).marriages)
                = Len(PersonById(ancestors, b).marriages) + 1

(* ------------------- the storage hook's update / delete ----------------- *)
(* TypeGuards.isValidAncestorId: a non-empty string.                       *)
isValidAncestorId(value) == value # NoId

(* What one call of the hook leaves behind: its return value (ok = FALSE   *)
(* for null / false), whether it dispatched, and the collection the        *)
(* reducer then holds.                                                     *)
CallResult(ok, dispatched, all) == [ok |-> ok, dispatched |-> dispatched, ancestors |-> all]

(* A call that looks nothing up: spreads the missing record and dispatches *)
(* the mapped list.                                                        *)
updateAncestorCall_noLookup(all, id, parentIds, t) ==
    CallResult(TRUE, TRUE, updateAncestor(all, id, parentIds, t))

(* updateAncestor(id, {parentIds}) on the current state.                   *)
updateAncestorCall(all, id, parentIds, t) ==
    IF ~isValidAncestorId(id) THEN CallResult(FALSE, FALSE, all)
    ELSE IF FindIndex(all, id) = 0 THEN CallResult(FALSE, FALSE, all)
    ELSE CallResult(TRUE, TRUE, updateAncestor(all, id, parentIds, t))

(* deleteAncestor(id)                                                      *)
deleteAncestorCall(all, id, t) ==
    IF ~isValidAncestorId(id) THEN CallResult(FALSE, FALSE, all)
    ELSE IF ~(\E i \in DOMAIN all : all[i].id = id) THEN CallResult(FALSE, FALSE, all)
    ELSE CallResult(TRUE, TRUE, deleteReducer(all, id, t))

(* Collections of 1..MaxIds persons of generation 0 with any parent ids;   *)
(* the ids a caller may pass are "", the ids present and the ids absent.   *)
ApiCollections ==
    UNION {{c \in [1..n -> UNION {{PersonShape(id, 0, P, 0) : P \in SUBSET IdSet} : id \in 1..n}] :
               \A i \in 1..n : c[i].id = i} : n \in 1..MaxIds}

ApiIds == {NoId} \cup IdSet

ApiPatches == {<<>>, <<1>>}

ApiCall(fn, id, ok, dispatched) == [fn |-> fn, id |-> id, ok |-> ok, dispatched |-> dispatched]

InitApi ==
    /\ ancestors \in ApiCollections
    /\ nextId = MaxIds + 1
    /\ now = 0
    /\ last = Mark("init", NoId, NoId, {})
    /\ q = Idle

CallUpdate ==
    /\ q.fn = "idle"
    /\ \E id \in ApiIds, parentIds \in ApiPatches :
          /\ ancestors' = updateAncestorCall(ancestors, id, parentIds, 1).ancestors
          /\ q' = ApiCall("update", id, updateAncestorCall(ancestors, id, parentIds, 1).ok,
                          updateAncestorCall(ancestors, id, parentIds, 1).dispatched)
    /\ UNCHANGED <<nextId, now, last>>

CallDelete ==
    /\ q.fn = "idle"
    /\ \E id \in ApiIds :
          /\ ancestors' = deleteAncestorCall(ancestors, id, 1).ancestors
          /\ q' = ApiCall("delete", id, deleteAncestorCall(ancestors, id, 1).ok,
                          deleteAncestorCall(ancestors, id, 1).dispatched)
    /\ UNCHANGED <<nextId, now, last>>

NextApi == CallUpdate \/ CallDelete

SpecApi == InitApi /\ [][NextApi]_vars

(* C11: update and delete with an id that names no Person return the       *)
(* negative result, dispatch nothing and leave the collection as it was.   *)
C11_NotFound ==
    [][(q'.fn \in {"update", "delete"} /\ q'.id \notin IdsOf(ancestors))
          => (~q'.ok /\ ~q'.dispatched /\ ancestors' = ancestors)]_vars

(* An update refused for a well-formed id that is absent from a collection *)
(* of two or more persons.                                                 *)
C11_Witness ==
    /\ q.fn = "update" /\ ~q.ok
    /\ q.id # NoId /\ q.id \notin IdsOf(ancestors)
    /\ Len(ancestors) >= 2

(* --------------------------- export / import ---------------------------- *)
(* The text of a form's year field: its length and what parseInt reads     *)
(* from it ("" is the empty field).                                        *)
Text(len, num) == [len |-> len, num |-> num]

(* validateDateField("year", value, currentValue)                          *)
validateDateField(value, currentValue) ==
    IF value.len = 0 THEN Text(0, 0)
    ELSE IF value.len = 4 /\ value.num >= MinYear /\ value.num <= MaxYear THEN value
    ELSE IF value.len < 4 /\ value.num > 0 THEN value
    ELSE currentValue

(* createLocationEvent: date.year = parseInt(year) when the field is not   *)
(* empty, no date otherwise.                                               *)
createLocationEvent(year) == IF year.len = 0 THEN 0 ELSE year.num

(* The token: btoa(encodeURIComponent(JSON.stringify(data))); kind is      *)
(* "doc" for a token that decodes and parses to an object with an          *)
(* ancestors array.                                                        *)
Payload(kind, people) == [kind |-> kind, people |-> people]

exportAsBase64(all) == Payload("doc", [i \in DOMAIN all |-> toJson(all[i])])

Outcome(threw, people) == [threw |-> threw, people |-> people]

(* StorageService.importData without the check of each record's id.        *)
importDataSvc_noIdCheck(payload) ==
    IF payload.kind # "doc" THEN Outcome(TRUE, <<>>)
    ELSE Outcome(FALSE, payload.people)

(* StorageService.importFromBase64 -> importData: throws on a token that   *)
(* does not decode or parse, on a missing ancestors array and on a record  *)
(* whose id is missing or empty.                                           *)
importDataSvc(payload) ==
    IF payload.kind # "doc" THEN Outcome(TRUE, <<>>)
    ELSE IF \E i \in DOMAIN payload.people :
               ~payload.people[i].hasId \/ payload.people[i].id = NoId
    THEN Outcome(TRUE, <<>>)
    ELSE Outcome(FALSE, payload.people)

isFamilyHistoryData(people) == \A i \in DOMAIN people : isAncestor(people[i])

(* The hook's importFromBase64.                                            *)
importFromBase64(all, payload) ==
    IF importDataSvc(payload).threw THEN CallResult(FALSE, FALSE, all)
    ELSE IF isFamilyHistoryData(importDataSvc(payload).people)
    THEN CallResult(TRUE, TRUE,
                    [i \in DOMAIN importDataSvc(payload).people |->
                        fromJson(importDataSvc(payload).people[i])])
    ELSE CallResult(FALSE, FALSE, all)

(* What the user types into the birth-year field, and the documents a      *)
(* foreign token may hold: up to two records, the id missing, empty or     *)
(* present, the birth year absent or out of the guard's range.             *)
TypedYears == {Text(0, 0), Text(2, 19), Text(4, MinYear - 1), Text(4, MinYear), Text(4, MaxYear + 1)}

ForeignRecords ==
    {[toJson(PersonShape(id, 0, {}, y)) EXCEPT !.hasId = h] :
        id \in 1..2, y \in {0, 19}, h \in {TRUE}}
    \cup {[toJson(PersonShape(NoId, 0, {}, y)) EXCEPT !.hasId = h] :
        y \in {0, 19}, h \in BOOLEAN}

Payloads ==
    {Payload(k, <<>>) : k \in {"undecodable", "unparsable", "noAncestors", "doc"}}
    \cup {Payload("doc", <<r>>) : r \in ForeignRecords}
    \cup {Payload("doc", <<r1, r2>>) : r1 \in ForeignRecords, r2 \in ForeignRecords}

PortCall(fn, payload, ok, dispatched) ==
    [fn |-> fn, payload |-> payload, ok |-> ok, dispatched |-> dispatched]

(* The form saved for an existing person with only its birth year typed.   *)
SaveTypedYear ==
    /\ q.fn = "idle"
    /\ Tick
    /\ \E i \in DOMAIN ancestors, typed \in TypedYears :
          /\ ancestors' = saveExisting(ancestors, ancestors[i].id,
                FormData(ancestors[i].parentIds,
                         createLocationEvent(validateDateField(typed, Text(0, 0))),
                         ancestors[i].marriages, ancestors[i].divorces,
                         {ancestors[j].id : j \in {k \in DOMAIN ancestors :
                              Includes(ancestors[k].parentIds, ancestors[i].id)}}),
                now')
          /\ last' = Mark("saveEdit", ancestors[i].id, NoId, {})
    /\ UNCHANGED <<nextId, q>>

PortAddParent == q.fn = "idle" /\ HandleAddParent

PortAddChild == q.fn = "idle" /\ HandleAddChild

Import ==
    /\ q.fn = "idle"
    /\ \E payload \in Payloads :
          /\ ancestors' = importFromBase64(ancestors, payload).ancestors
          /\ q' = PortCall("import", payload, importFromBase64(ancestors, payload).ok,
                           importFromBase64(ancestors, payload).dispatched)
    /\ UNCHANGED <<nextId, now, last>>

ExportImport ==
    /\ q.fn = "idle"
    /\ ancestors' = importFromBase64(ancestors, exportAsBase64(ancestors)).ancestors
    /\ q' = PortCall("roundtrip", exportAsBase64(ancestors),
                     importFromBase64(ancestors, exportAsBase64(ancestors)).ok,
                     importFromBase64(ancestors, exportAsBase64(ancestors)).dispatched)
    /\ UNCHANGED <<nextId, now, last>>

NextPort == SaveTypedYear \/ PortAddParent \/ PortAddChild \/ Import \/ ExportImport

SpecPort == Init /\ [][NextPort]_vars

BadPayload(payload) ==
    \/ payload.kind # "doc"
    \/ \E i \in DOMAIN payload.people :
          ~payload.people[i].hasId \/ payload.people[i].id = NoId

(* C12: an import of a token that does not decode or parse, or that holds  *)
(* a record with a missing or empty id, returns false; a failed import     *)
(* leaves the collection as it was; a successful one leaves exactly the    *)
(* imported people.                                                        *)
C12_AllOrNothing ==
    [][q'.fn = "import" =>
          /\ BadPayload(q'.payload) => ~q'.ok
          /\ ~q'.ok => (ancestors' = ancestors /\ ~q'.dispatched)
          /\ q'.ok => ancestors' = [i \in DOMAIN q'.payload.people |->
                                       fromJson(q'.payload.people[i])]]_vars

(* An import into a collection of two, refused for a document whose second *)
(* record has an empty id after a well-formed first one.                   *)
C12_Witness ==
    /\ q.fn = "import" /\ ~q.ok
    /\ Len(ancestors) = 2
    /\ q.payload.kind = "doc" /\ Len(q.payload.people) = 2
    /\ q.payload.people[1].hasId /\ q.payload.people[1].id # NoId
    /\ q.payload.people[1].birthYear = 0
    /\ q.payload.people[2].hasId /\ q.payload.people[2].id = NoId

Graph(all) ==
    [i \in DOMAIN all |->
        [id |-> all[i].id, parentIds |-> all[i].parentIds, generation |-> all[i].generation,
         birthYear |-> all[i].birthYear, marriages |-> all[i].marriages,
         divorces |-> all[i].divorces]]

saveExistingDispatches(all, editingId, form, t) ==
    <<saveExisting(all, editingId, form, t)>>

(* storage.addAncestor dispatches, then storage.batchUpdateAncestors.      *)
saveNewDispatches(all, id, form, t) ==
    <<addAncestor(all, mergeForm(NewPerson(id, 0, t), form, t), id, t),
      saveNew(all, id, form, t)>>

(* storage.addAncestor dispatches, then storage.updateAncestor.            *)
addParentDispatches(all, childId, id, t) ==
    <<addAncestor(all, NewPerson(id, all[FindIndex(all, childId)].generation + 1, t), id, t),
      addParentOf(all, childId, id, t)>>

Commit(op, before, after, rest) ==
    [fn |-> "commit", op |-> op, before |-> before, after |-> after, rest |-> rest]

Begin(op, dispatches) ==
    /\ ancestors' = dispatches[1]
    /\ q' = Commit(op, ancestors, dispatches[Len(dispatches)], Tail(dispatches))

BeginSaveEdit ==
    /\ q.fn = "idle"
    /\ Tick
    /\ \E i \in DOMAIN ancestors :
       \E form \in Forms(ancestors[i], ancestors, {0}) :
          /\ Begin("saveEdit", saveExistingDispatches(ancestors, ancestors[i].id, form, now'))
          /\ last' = Mark("saveEdit", ancestors[i].id, NoId, {})
          /\ UNCHANGED nextId

BeginSaveNew ==
    /\ q.fn = "idle"
    /\ Tick
    /\ nextId <= MaxIds
    /\ \E form \in Forms(NullPerson, ancestors, {0}) :
          /\ Begin("saveNew", saveNewDispatches(ancestors, nextId, form, now'))
          /\ last' = Mark("saveNew", NoId, nextId, {})
          /\ nextId' = nextId + 1

BeginAddParent ==
    /\ q.fn = "idle"
    /\ Tick
    /\ nextId <= MaxIds
    /\ \E i \in DOMAIN ancestors :
          /\ Begin("addParent", addParentDispatches(ancestors, ancestors[i].id, nextId, now'))
          /\ last' = Mark("addParent", ancestors[i].id, nextId, {})
          /\ nextId' = nextId + 1

NextDispatch ==
    /\ q.fn = "commit" /\ q.rest # <<>>
    /\ ancestors' = Head(q.rest)
    /\ q' = [q EXCEPT !.rest = Tail(q.rest)]
    /\ UNCHANGED <<nextId, now, last>>

EndAction ==
    /\ q.fn = "commit" /\ q.rest = <<>>
    /\ q' = Idle
    /\ UNCHANGED <<ancestors, nextId, now, last>>

NextCommit == BeginSaveEdit \/ BeginSaveNew \/ BeginAddParent \/ NextDispatch \/ EndAction

SpecCommit == Init /\ [][NextCommit]_vars

GenerationsKept(before, after) ==
    \A p \in Persons(before) :
        p.id \in IdsOf(after) => PersonById(after, p.id).generation = p.generation

(* C14: a new Person gets child.generation + 1 (addParent),                *)
(* parent.generation - 1 (addChild) or 0 (a saved new person), and no      *)
(* save, delete, addParent or addChild changes the generation of a Person  *)
(* that was already there.                                                 *)
C14_GenerationFixed ==
    [][/\ GenerationsKept(ancestors, ancestors')
       /\ last'.op = "addParent" =>
             PersonById(ancestors', last'.newId).generation
                = PersonById(ancestors, last'.id).generation + 1
       /\ last'.op = "addChild" =>
             PersonById(ancestors', last'.newId).generation
                = PersonById(ancestors, last'.id).generation - 1
       /\ last'.op = "saveNew" => PersonById(ancestors', last'.newId).generation = 0]_vars

(* An edit that gave a person a child of its own generation: the link      *)
(* and the generations disagree and both generations are kept.             *)
C14_Witness ==
    /\ last.op = "saveEdit"
    /\ \E c \in Persons(ancestors) :
          /\ c.id # last.id
          /\ c.updatedAt = now
          /\ Includes(c.parentIds, last.id)
          /\ c.generation = PersonById(ancestors, last.id).generation
          /\ c.generation # 0

(* ------------------------------ the layout ------------------------------ *)
(* buildTreeFromRoot in its two forms: "fixedBase" places the top          *)
(* generation at BASE_Y and measures the canvas from the nodes,            *)
(* "centered" centres each generation and floors the canvas.               *)
GENERATION_HEIGHT == 180
MIN_HORIZONTAL_SPACING == 200
NODE_HEIGHT == 80
PADDING == 100
BASE_Y == 200
TOP_PADDING == 100
BOTTOM_PADDING == 100
MIN_CANVAS_WIDTH == 800
MIN_CANVAS_HEIGHT == 500

MaxOf(S) == CHOOSE x \in S : \A y \in S : y <= x

MinOf(S) == CHOOSE x \in S : \A y \in S : x <= y

(* generations: the Map from a stored generation to its persons, in the    *)
(* order of the collection.                                                *)
generationKeys(allAncestors) == {allAncestors[i].generation : i \in DOMAIN allAncestors}

ancestorsInGen(allAncestors, generation) ==
    LET inGen(a) == a.generation = generation IN SelectSeq(allAncestors, inGen)

maxNodesInGeneration(allAncestors) ==
    MaxOf({Len(ancestorsInGen(allAncestors, g)) : g \in generationKeys(allAncestors)})

TreeNode(ancestor, x, y) == [ancestor |-> ancestor, x |-> x, y |-> y, generation |-> ancestor.generation]

nodeX(version, allAncestors, generation, index) ==
    IF version = "fixedBase"
    THEN PADDING + index * MIN_HORIZONTAL_SPACING + MIN_HORIZONTAL_SPACING \div 2
    ELSE LET totalTreeWidth == maxNodesInGeneration(allAncestors) * MIN_HORIZONTAL_SPACING
             genWidth == Len(ancestorsInGen(allAncestors, generation)) * MIN_HORIZONTAL_SPACING
             startX == (totalTreeWidth - genWidth) \div 2
             offsetX == (totalTreeWidth + 200) \div 2 - totalTreeWidth \div 2
         IN startX + index * MIN_HORIZONTAL_SPACING + MIN_HORIZONTAL_SPACING \div 2 + offsetX

(* A y that ignores the generation: every node on the top row.             *)
nodeY_flat(version, allAncestors, generation) ==
    IF version = "fixedBase" THEN BASE_Y ELSE TOP_PADDING

nodeY(version, allAncestors, generation) ==
    IF version = "fixedBase"
    THEN BASE_Y + (MaxOf(generationKeys(allAncestors)) - generation) * GENERATION_HEIGHT
    ELSE (TOP_PADDING + MaxOf(generationKeys(allAncestors)) * GENERATION_HEIGHT)
            - generation * GENERATION_HEIGHT

RECURSIVE placeGenerations(_, _, _, _)
placeGenerations(version, allAncestors, sortedGenerations, k) ==
    IF k > Len(sortedGenerations) THEN <<>>
    ELSE [index \in 1..Len(ancestorsInGen(allAncestors, sortedGenerations[k])) |->
             TreeNode(ancestorsInGen(allAncestors, sortedGenerations[k])[index],
                      nodeX(version, allAncestors, sortedGenerations[k], index - 1),
                      nodeY(version, allAncestors, sortedGenerations[k]))]
         \o placeGenerations(version, allAncestors, sortedGenerations, k + 1)

layoutNodes(version, allAncestors) ==
    placeGenerations(version, allAncestors, SetToSeq(generationKeys(allAncestors)), 1)

(* nodeMap.get(id): the node set last for the id, 0 when there is none.    *)
nodeMapGet(nodes, id) ==
    IF \E i \in DOMAIN nodes : nodes[i].ancestor.id = id
    THEN MaxOf({i \in DOMAIN nodes : nodes[i].ancestor.id = id})
    ELSE 0

Connection(from, to, type) == [from |-> from, to |-> to, type |-> type]

(* Parent connections that skip the look-up in the node map.               *)
parentConnections_unchecked(nodes, node) ==
    [k \in DOMAIN node.ancestor.parentIds |->
        Connection(node.ancestor.parentIds[k], node.ancestor.id, "parent")]

parentConnections(nodes, node) ==
    LET known(parentId) == nodeMapGet(nodes, parentId) # 0
    IN [k \in DOMAIN SelectSeq(node.ancestor.parentIds, known) |->
           Connection(SelectSeq(node.ancestor.parentIds, known)[k], node.ancestor.id, "parent")]

(* The search for a marriage line already drawn, looking at one direction  *)
(* only.                                                                   *)
existingConnection_oneWay(connections, a, b) ==
    \E i \in DOMAIN connections :
        /\ connections[i].type = "marriage"
        /\ connections[i].from = a /\ connections[i].to = b

existingConnection(connections, a, b) ==
    \E i \in DOMAIN connections :
        /\ connections[i].type = "marriage"
        /\ \/ (connections[i].from = a /\ connections[i].to = b)
           \/ (connections[i].from = b /\ connections[i].to = a)

RECURSIVE marriageConnections(_, _, _, _)
marriageConnections(connections, nodes, node, k) ==
    IF k > Len(node.ancestor.marriages) THEN connections
    ELSE LET partnerId == node.ancestor.marriages[k].partnerId
             spouse == nodeMapGet(nodes, partnerId)
         IN IF partnerId # NoId /\ spouse # 0
               /\ nodes[spouse].generation = node.generation
               /\ ~existingConnection(connections, node.ancestor.id, partnerId)
            THEN marriageConnections(
                    Append(connections, Connection(node.ancestor.id, partnerId, "marriage")),
                    nodes, node, k + 1)
            ELSE marriageConnections(connections, nodes, node, k + 1)

RECURSIVE connectNodes(_, _, _)
connectNodes(connections, nodes, k) ==
    IF k > Len(nodes) THEN connections
    ELSE connectNodes(
            marriageConnections(connections \o parentConnections(nodes, nodes[k]),
                                nodes, nodes[k], 1),
            nodes, k + 1)

(* A canvas of fixed size.                                                 *)
layoutDimensions_fixed(version, allAncestors, nodes) ==
    [width |-> MIN_CANVAS_WIDTH, height |-> MIN_CANVAS_HEIGHT]

layoutDimensions(version, allAncestors, nodes) ==
    IF version = "fixedBase"
    THEN LET topBound == MinOf({nodes[i].y : i \in DOMAIN nodes}) - NODE_HEIGHT \div 2 - 25 - 12
             bottomBound == MaxOf({nodes[i].y : i \in DOMAIN nodes}) + NODE_HEIGHT \div 2 + 25 + 12
         IN [width |-> maxNodesInGeneration(allAncestors) * MIN_HORIZONTAL_SPACING + 2 * PADDING,
             height |-> bottomBound - topBound + 2 * PADDING]
    ELSE LET maxWidth == maxNodesInGeneration(allAncestors) * MIN_HORIZONTAL_SPACING
             totalGenerations == MaxOf(generationKeys(allAncestors))
                                    - MinOf(generationKeys(allAncestors)) + 1
         IN [width |-> MaxOf({maxWidth + 200, MIN_CANVAS_WIDTH}),
             height |-> MaxOf({totalGenerations * GENERATION_HEIGHT + TOP_PADDING + BOTTOM_PADDING,
                               MIN_CANVAS_HEIGHT})]

buildTreeFromRoot(version, allAncestors) ==
    [nodes |-> layoutNodes(version, allAncestors),
     connections |-> connectNodes(<<>>, layoutNodes(version, allAncestors), 1),
     dimensions |-> layoutDimensions(version, allAncestors, layoutNodes(version, allAncestors))]

(* Collections of 1..MaxIds persons with ids 1..n: any of three stored     *)
(* generations (negative, zero, and a positive one that leaves a gap), and *)
(* either any set of parent ids or a choice of marriage and divorce lists. *)
LayoutShapes(id) ==
    LET generationsUsed == {-1, 0, 2}
        marriagesUsed ==
            {<<>>, <<LocationEvent(1, 0, 0)>>, <<LocationEvent(2, 0, 0)>>,
             <<LocationEvent(2, 0, 0), LocationEvent(2, MinYear, 0)>>}
        divorcesUsed == {<<>>, <<LocationEvent(1, 0, 0)>>}
    IN {PersonShape(id, g, P, 0) : g \in generationsUsed, P \in SUBSET IdSet}
       \cup {[NewPerson(id, g, 0) EXCEPT !.hasMarriages = m # <<>>, !.marriages = m,
                                         !.hasDivorces = d # <<>>, !.divorces = d] :
                 g \in generationsUsed, m \in marriagesUsed, d \in divorcesUsed}

LayoutCollections ==
    UNION {{c \in [1..n -> UNION {LayoutShapes(id) : id \in 1..n}] :
               \A i \in 1..n : c[i].id = i} : n \in 1..MaxIds}

InitLayout ==
    /\ ancestors \in LayoutCollections
    /\ nextId = MaxIds + 1
    /\ now = 0
    /\ last = Mark("init", NoId, NoId, {})
    /\ q = Idle

Render ==
    /\ q.fn = "idle"
    /\ \E version \in {"fixedBase", "centered"} :
          q' = [fn |-> "layout", version |-> version,
                result |-> buildTreeFromRoot(version, ancestors)]
    /\ UNCHANGED <<ancestors, nextId, now, last>>

NextLayout == Render

SpecLayout == InitLayout /\ [][NextLayout]_vars

LaidOut == q.fn = "layout"

NodesOf(id) == {k \in DOMAIN q.result.nodes : q.result.nodes[k].ancestor.id = id}

EdgesOf(type, from, to) ==
    {k \in DOMAIN q.result.connections :
        /\ q.result.connections[k].type = type
        /\ q.result.connections[k].from = from
        /\ q.result.connections[k].to = to}

(* C17: in the layout of a non-empty collection each Person appears as     *)
(* exactly one node, carrying its stored generation, and for any two nodes *)
(* the difference of their y is 180 times the difference of their          *)
(* generations, the greater generation having the smaller y; so y is the   *)
(* same exactly when the generation is the same.                           *)
C17_RowPerGeneration ==
    LaidOut =>
        /\ Len(q.result.nodes) = Len(ancestors)
        /\ \A i \in DOMAIN ancestors :
              /\ Cardinality(NodesOf(ancestors[i].id)) = 1
              /\ \A k \in NodesOf(ancestors[i].id) :
                    /\ q.result.nodes[k].ancestor = ancestors[i]
                    /\ q.result.nodes[k].generation = ancestors[i].generation
        /\ \A j, k \in DOMAIN q.result.nodes :
              /\ q.result.nodes[j].y - q.result.nodes[k].y
                    = 180 * (q.result.nodes[k].generation - q.result.nodes[j].generation)
              /\ (q.result.nodes[j].y = q.result.nodes[k].y)
                    <=> (q.result.nodes[j].generation = q.result.nodes[k].generation)

C17_Witness ==
    /\ LaidOut
    /\ \E i, j, k \in DOMAIN q.result.nodes :
          /\ i # j
          /\ q.result.nodes[i].generation = q.result.nodes[j].generation
          /\ q.result.nodes[k].generation = q.result.nodes[i].generation + 3
          /\ q.result.nodes[k].y = q.result.nodes[i].y - 540

(* C18: the parent edges of the layout are exactly the pairs (p, c) with   *)
(* p in c.parentIds and both p and c Persons of the collection: one edge   *)
(* for each such pair and no parent edge for any other pair, in particular *)
(* none for a parent id that names no Person.                              *)
C18_ParentEdges ==
    LaidOut =>
        /\ \A p, c \in IdSet :
              Cardinality(EdgesOf("parent", p, c)) =
                 IF /\ p \in IdsOf(ancestors)
                    /\ c \in IdsOf(ancestors)
                    /\ Includes(PersonById(ancestors, c).parentIds, p)
                 THEN 1 ELSE 0
        /\ \A k \in DOMAIN q.result.connections :
              q.result.connections[k].type = "parent" =>
                 /\ q.result.connections[k].from \in IdsOf(ancestors)
                 /\ q.result.connections[k].to \in IdsOf(ancestors)

C18_Witness ==
    /\ LaidOut
    /\ \E c \in DOMAIN ancestors :
          /\ \E k \in DOMAIN ancestors[c].parentIds :
                ancestors[c].parentIds[k] \notin IdsOf(ancestors)
          /\ \E k \in DOMAIN ancestors[c].parentIds :
                /\ ancestors[c].parentIds[k] \in IdsOf(ancestors)
                /\ EdgesOf("parent", ancestors[c].parentIds[k], ancestors[c].id) # {}

MarriageEdgesBetween(a, b) == EdgesOf("marriage", a, b) \cup EdgesOf("marriage", b, a)

SameGeneration(a, b) ==
    /\ a \in IdsOf(ancestors) /\ b \in IdsOf(ancestors)
    /\ PersonById(ancestors, a).generation = PersonById(ancestors, b).generation

MarriageEdgesAre(connectedPairs) ==
    LaidOut =>
        /\ \A a, b \in IdSet :
              Cardinality(MarriageEdgesBetween(a, b)) =
                 IF SameGeneration(a, b) /\ <<a, b>> \in connectedPairs THEN 1 ELSE 0
        /\ \A k \in DOMAIN q.result.connections :
              q.result.connections[k].type = "marriage" =>
                 /\ q.result.connections[k].from \in IdsOf(ancestors)
                 /\ q.result.connections[k].to \in IdsOf(ancestors)

ByMarriageOrDivorce ==
    {pair \in IdsOf(ancestors) \X IdsOf(ancestors) :
        \/ Names(PersonById(ancestors, pair[1]).marriages
                    \o PersonById(ancestors, pair[1]).divorces, pair[2])
        \/ Names(PersonById(ancestors, pair[2]).marriages
                    \o PersonById(ancestors, pair[2]).divorces, pair[1])}

ByMarriage ==
    {pair \in IdsOf(ancestors) \X IdsOf(ancestors) :
        \/ Names(PersonById(ancestors, pair[1]).marriages, pair[2])
        \/ Names(PersonById(ancestors, pair[2]).marriages, pair[1])}

(* C19 as claimed: exactly one marriage edge for each unordered pair of    *)
(* existing same-generation Persons connected by a marriage or a divorce   *)
(* Event of either side, and none for any other pair.                      *)
C19_AsClaimed == MarriageEdgesAre(ByMarriageOrDivorce)

(* C19: the layout emits exactly one marriage edge for each unordered pair *)
(* {A, B} of existing same-generation Persons connected by a marriage      *)
(* Event on A naming B or on B naming A, whichever side's list holds the   *)
(* Event and however many such Events exist, and no marriage edge for any  *)
(* other pair: none for a pair whose generations differ and none for a     *)
(* pair connected by divorce Events only.                                  *)
C19_MarriageEdges == MarriageEdgesAre(ByMarriage)

C19_Witness ==
    /\ LaidOut
    /\ \E a, b \in IdsOf(ancestors) :
          /\ a # b
          /\ Len(PersonById(ancestors, a).marriages) = 2
          /\ Names(PersonById(ancestors, a).marriages, b)
          /\ Names(PersonById(ancestors, b).marriages, a)
          /\ Cardinality(MarriageEdgesBetween(a, b)) = 1
    /\ \E a, b \in IdsOf(ancestors) :
          /\ Names(PersonById(ancestors, a).marriages, b)
          /\ ~SameGeneration(a, b)

(* The canvas of a collection that has the same largest bucket and the     *)
(* same lowest and highest generation, and nothing else in common.         *)
CanonicalCollection(all) ==
    LET m == maxNodesInGeneration(all)
        top == [i \in 1..m |-> NewPerson(i, MaxOf(generationKeys(all)), 0)]
    IN IF MinOf(generationKeys(all)) = MaxOf(generationKeys(all)) THEN top
       ELSE Append(top, NewPerson(m + 1, MinOf(generationKeys(all)), 0))

Within(x, y) ==
    /\ 0 <= x /\ x <= q.result.dimensions.width
    /\ 0 <= y /\ y <= q.result.dimensions.height

(* C20: for every non-empty collection the canvas bounds the content:      *)
(* every node centre, the add-parent affordance 77 above it and the        *)
(* add-child affordance 77 below it lie within 0..width and 0..height; and *)
(* width and height are determined by the largest bucket size and the      *)
(* generation extent: a collection with the same largest bucket and the    *)
(* same extent gets the same canvas.                                       *)
C20_CanvasBounds ==
    LaidOut =>
        /\ \A k \in DOMAIN q.result.nodes :
              /\ Within(q.result.nodes[k].x, q.result.nodes[k].y)
              /\ Within(q.result.nodes[k].x, q.result.nodes[k].y - 77)
              /\ Within(q.result.nodes[k].x, q.result.nodes[k].y + 77)
        /\ q.result.dimensions =
              buildTreeFromRoot(q.version, CanonicalCollection(ancestors)).dimensions

C20_Witness ==
    /\ LaidOut
    /\ Len(ancestors) = MaxIds
    /\ \E i, j \in DOMAIN ancestors :
          /\ ancestors[i].generation = -1
          /\ ancestors[j].generation = 2
    /\ q.result.dimensions.height > MIN_CANVAS_HEIGHT

(* --------------------------- store initialization ----------------------- *)
(* The environment met on mount: the value under the storage key, the      *)
(* `data` parameter of the URL, and whether localStorage.setItem throws.   *)
(* The stored value is a Payload whose kind is "none" (no item),           *)
(* "unreadable" (getItem throws), "unparsable" (JSON.parse throws),        *)
(* "noAncestors" (no ancestors array) or "doc".                            *)
StoredValues ==
    {Payload(k, <<>>) : k \in {"none", "unreadable", "unparsable", "noAncestors", "doc"}}
    \cup {Payload("doc", <<r>>) : r \in ForeignRecords}
    \cup {Payload("doc", <<r1, r2>>) : r1 \in ForeignRecords, r2 \in ForeignRecords}

UrlParams == {Payload("none", <<>>)} \cup Payloads

createEmptyData == <<>>

loadFromStorage(stored) ==
    IF stored.kind = "doc" THEN stored.people ELSE createEmptyData

(* urlResult.data: null (here an Outcome that threw) when there is no      *)
(* parameter or importFromBase64 throws.                                   *)
loadFromUrlOnInit(url) ==
    IF url.kind = "none" THEN Outcome(TRUE, <<>>) ELSE importDataSvc(url)

usesUrlData(url) ==
    ~loadFromUrlOnInit(url).threw /\ isFamilyHistoryData(loadFromUrlOnInit(url).people)

(* The payload of the one SET_DATA that initializeData dispatches.         *)
initializeData(url, stored, setItemThrows, id, t) ==
    IF usesUrlData(url)
    THEN [i \in DOMAIN loadFromUrlOnInit(url).people |->
             fromJson(loadFromUrlOnInit(url).people[i])]
    ELSE IF Len(loadFromStorage(stored)) = 0
    THEN IF setItemThrows THEN createEmptyData
         ELSE <<NewPerson(id, 0, t)>>
    ELSE [i \in DOMAIN loadFromStorage(stored) |-> fromJson(loadFromStorage(stored)[i])]

Boot(fn, url, stored, setItemThrows) ==
    [fn |-> fn, url |-> url, stored |-> stored, setItemThrows |-> setItemThrows]

InitMount ==
    /\ ancestors = <<>>
    /\ nextId = 1
    /\ now = 0
    /\ last = Mark("init", NoId, NoId, {})
    /\ \E url \in UrlParams, stored \in StoredValues, setItemThrows \in BOOLEAN :
          q = Boot("mount", url, stored, setItemThrows)

Initialize ==
    /\ q.fn = "mount"
    /\ ancestors' = initializeData(q.url, q.stored, q.setItemThrows, nextId, now)
    /\ nextId' = IF usesUrlData(q.url) \/ Len(loadFromStorage(q.stored)) # 0
                 THEN nextId ELSE nextId + 1
    /\ q' = [q EXCEPT !.fn = "ready"]
    /\ UNCHANGED <<now, last>>

NextMount == Initialize

SpecMount == InitMount /\ [][NextMount]_vars

(* C16: after store initialization, if a saved snapshot exists the         *)
(* collection equals that snapshot's people; if none exists, or the stored *)
(* value is unreadable or structurally invalid, or initialization fails,   *)
(* the collection is exactly one Person with generation 0 and no parents.  *)
(* Read for a mount without a data parameter in the URL, and with a saved  *)
(* snapshot that holds no people counted as no snapshot.                   *)
C16_InitialCollection ==
    (q.fn = "ready" /\ q.url.kind = "none") =>
        IF q.stored.kind = "doc" /\ q.stored.people # <<>>
        THEN ancestors = [i \in DOMAIN q.stored.people |-> fromJson(q.stored.people[i])]
        ELSE /\ Len(ancestors) = 1
             /\ ancestors[1].generation = 0
             /\ ancestors[1].parentIds = <<>>

BucketOf(generation) ==
    {k \in DOMAIN q.result.nodes : q.result.nodes[k].generation = generation}

BucketMidpointTwice(generation) ==
    MinOf({q.result.nodes[k].x : k \in BucketOf(generation)})
        + MaxOf({q.result.nodes[k].x : k \in BucketOf(generation)})

(* C21: within each generation bucket the nodes are placed left to right   *)
(* in collection order at a spacing of 200, so no two nodes share a        *)
(* position, and every bucket is centred on the widest one: the midpoint   *)
(* of a bucket's x values equals the midpoint of the widest bucket's.      *)
C21_CenteredBuckets ==
    LaidOut =>
        /\ \A j, k \in DOMAIN q.result.nodes :
              (q.result.nodes[j].generation = q.result.nodes[k].generation
                  /\ FindIndex(ancestors, q.result.nodes[j].ancestor.id)
                        < FindIndex(ancestors, q.result.nodes[k].ancestor.id))
              => q.result.nodes[k].x - q.result.nodes[j].x =
                    200 * Cardinality({i \in BucketOf(q.result.nodes[j].generation) :
                            /\ FindIndex(ancestors, q.result.nodes[j].ancestor.id)
                                  <= FindIndex(ancestors, q.result.nodes[i].ancestor.id)
                            /\ FindIndex(ancestors, q.result.nodes[i].ancestor.id)
                                  < FindIndex(ancestors, q.result.nodes[k].ancestor.id)})
        /\ \A j, k \in DOMAIN q.result.nodes :
              (j # k) => <<q.result.nodes[j].x, q.result.nodes[j].y>>
                            # <<q.result.nodes[k].x, q.result.nodes[k].y>>
        /\ \A g, w \in generationKeys(ancestors) :
              Cardinality(BucketOf(w)) = maxNodesInGeneration(ancestors)
                 => BucketMidpointTwice(g) = BucketMidpointTwice(w)

(* ------------------- isAncestorOf, one step at a time ------------------- *)
(* The search as the call stack runs it: `call` is the person a call has   *)
(* just been made on (0 when control is inside a for loop), `stack` holds  *)
(* one frame per call that is inside its loop, with the index k of the     *)
(* parentId it looks at next, and `visited` is the one Set shared by all   *)
(* calls.  A call that returns false makes its caller's loop move on; a    *)
(* call that returns true makes every caller return true.                  *)
MaxDepth == MaxIds + 1

Walk(fn, candidate, start, call, stack, visited, cut, result) ==
    [fn |-> fn, candidate |-> candidate, start |-> start, call |-> call,
     stack |-> stack, visited |-> visited, cut |-> cut, result |-> result]

Frame(person, k) == [person |-> person, k |-> k]

(* A visited set that never records anything.                              *)
visitedAdd_forget(visited, id) == visited

visitedAdd(visited, id) == visited \cup {id}

(* A test that looks at the first parent id only.                          *)
includesCandidate_firstOnly(parentIds, candidateId) ==
    Len(parentIds) > 0 /\ parentIds[1] = candidateId

includesCandidate(parentIds, candidateId) == Includes(parentIds, candidateId)

(* The state after a call returned false to the frame below it.            *)
returnFalse(w, visited, cut) ==
    IF w.stack = <<>>
    THEN [w EXCEPT !.fn = "done", !.call = 0, !.visited = visited, !.cut = cut,
                   !.result = FALSE]
    ELSE [w EXCEPT !.call = 0, !.visited = visited, !.cut = cut,
                   !.stack[Len(w.stack)].k = w.stack[Len(w.stack)].k + 1]

InitWalk ==
    /\ ancestors \in ApiCollections
    /\ nextId = MaxIds + 1
    /\ now = 0
    /\ last = Mark("init", NoId, NoId, {})
    /\ q = Idle

StartWalk ==
    /\ q.fn = "idle"
    /\ \E candidate \in IdSet, person \in DOMAIN ancestors :
          q' = Walk("walk", candidate, person, person, <<>>, {}, FALSE, FALSE)
    /\ UNCHANGED <<ancestors, nextId, now, last>>

EnterVisited ==
    /\ q.fn = "walk" /\ q.call # 0
    /\ ancestors[q.call].id \in q.visited
    /\ q' = returnFalse(q, q.visited, TRUE)
    /\ UNCHANGED <<ancestors, nextId, now, last>>

EnterFound ==
    /\ q.fn = "walk" /\ q.call # 0
    /\ ancestors[q.call].id \notin q.visited
    /\ includesCandidate(ancestors[q.call].parentIds, q.candidate)
    /\ q' = [q EXCEPT !.fn = "done", !.call = 0, !.result = TRUE,
                      !.visited = visitedAdd(q.visited, ancestors[q.call].id)]
    /\ UNCHANGED <<ancestors, nextId, now, last>>

EnterLoop ==
    /\ q.fn = "walk" /\ q.call # 0
    /\ ancestors[q.call].id \notin q.visited
    /\ ~includesCandidate(ancestors[q.call].parentIds, q.candidate)
    /\ Len(q.stack) < MaxDepth
    /\ q' = [q EXCEPT !.call = 0, !.stack = Append(q.stack, Frame(q.call, 1)),
                      !.visited = visitedAdd(q.visited, ancestors[q.call].id)]
    /\ UNCHANGED <<ancestors, nextId, now, last>>

LoopMissing ==
    /\ q.fn = "walk" /\ q.call = 0
    /\ q.stack[Len(q.stack)].k <= Len(ancestors[q.stack[Len(q.stack)].person].parentIds)
    /\ FindIndex(ancestors,
          ancestors[q.stack[Len(q.stack)].person].parentIds[q.stack[Len(q.stack)].k]) = 0
    /\ q' = [q EXCEPT !.stack[Len(q.stack)].k = q.stack[Len(q.stack)].k + 1]
    /\ UNCHANGED <<ancestors, nextId, now, last>>

LoopDescend ==
    /\ q.fn = "walk" /\ q.call = 0
    /\ q.stack[Len(q.stack)].k <= Len(ancestors[q.stack[Len(q.stack)].person].parentIds)
    /\ FindIndex(ancestors,
          ancestors[q.stack[Len(q.stack)].person].parentIds[q.stack[Len(q.stack)].k]) # 0
    /\ q' = [q EXCEPT !.call = FindIndex(ancestors,
                ancestors[q.stack[Len(q.stack)].person].parentIds[q.stack[Len(q.stack)].k])]
    /\ UNCHANGED <<ancestors, nextId, now, last>>

LoopExhausted ==
    /\ q.fn = "walk" /\ q.call = 0
    /\ q.stack[Len(q.stack)].k > Len(ancestors[q.stack[Len(q.stack)].person].parentIds)
    /\ q' = returnFalse([q EXCEPT !.stack = SubSeq(q.stack, 1, Len(q.stack) - 1)],
                        q.visited, q.cut)
    /\ UNCHANGED <<ancestors, nextId, now, last>>

NextWalk ==
    \/ StartWalk
    \/ EnterVisited
    \/ EnterFound
    \/ EnterLoop
    \/ LoopMissing
    \/ LoopDescend
    \/ LoopExhausted

SpecWalk == InitWalk /\ [][NextWalk]_vars /\ WF_vars(NextWalk)

(* C22: isAncestorOf terminates for every finite collection, self-loops,   *)
(* longer cycles and ids of missing Persons included: a search that has    *)
(* started always ends, never deeper than the number of Persons, and it    *)
(* ends with the boolean the function returns, a branch cut by the         *)
(* visited-set guard having contributed 'not an ancestor' without error.   *)
C22_Terminates ==
    /\ (q.fn = "walk") ~> (q.fn = "done")
    /\ [](q.fn = "walk" => Len(q.stack) <= Len(ancestors))
    /\ [](q.fn = "done" =>
            q.result = isAncestorOf(NewPerson(q.candidate, 0, 0), ancestors[q.start], ancestors))

C22_Witness ==
    /\ q.fn = "done"
    /\ q.cut
    /\ Cardinality(q.visited) >= 2
    /\ \E i \in DOMAIN ancestors :
          \E k \in DOMAIN ancestors[i].parentIds : ancestors[i].parentIds[k] \notin IdsOf(ancestors)
    /\ ancestors[q.start].id \in AncestorIdsOf(ancestors, ancestors[q.start].id)

applyUpdates_mergeLists(existingAncestor, updates, t) ==
    [f \in DOMAIN existingAncestor |->
        IF f = "updatedAt" THEN t
        ELSE IF f \in DOMAIN updates
             THEN IF f \in {"parentIds", "marriages", "divorces"}
                  THEN existingAncestor[f] \o updates[f]
                  ELSE updates[f]
             ELSE existingAncestor[f]]

(* { ...existingAncestor, ...updates, updatedAt: Date.now() }              *)
applyUpdates(existingAncestor, updates, t) ==
    [f \in DOMAIN existingAncestor |->
        IF f = "updatedAt" THEN t
        ELSE IF f \in DOMAIN updates THEN updates[f]
        ELSE existingAncestor[f]]

updateAncestorWith(ancestorsToUse, id, updates, t) ==
    IF ~isValidAncestorId(id) \/ FindIndex(ancestorsToUse, id) = 0
    THEN CallResult(FALSE, FALSE, ancestorsToUse)
    ELSE CallResult(TRUE, TRUE,
            updateBidirectionalRelationships(
                [j \in DOMAIN ancestorsToUse |->
                    IF ancestorsToUse[j].id = id
                    THEN applyUpdates(ancestorsToUse[FindIndex(ancestorsToUse, id)], updates, t)
                    ELSE ancestorsToUse[j]],
                applyUpdates(ancestorsToUse[FindIndex(ancestorsToUse, id)], updates, t), t))

(* Collections of 1..MaxIds persons: no parents or person 1 as parent, no  *)
(* marriage list or one marriage naming person 1 or 2, no divorce list or  *)
(* one divorce naming person MaxIds; and the patches a caller may pass.    *)
PatchShapes(id) ==
    {[PersonShape(id, 0, P, 0) EXCEPT !.hasMarriages = m # <<>>, !.marriages = m,
                                      !.hasDivorces = d # <<>>, !.divorces = d] :
        P \in {{}, {1}},
        m \in {<<>>, <<LocationEvent(1, 0, 0)>>, <<LocationEvent(2, MinYear, 0)>>},
        d \in {<<>>, <<LocationEvent(MaxIds, 0, 0)>>}}

PatchCollections ==
    UNION {{c \in [1..n -> UNION {PatchShapes(id) : id \in 1..n}] :
               \A i \in 1..n : c[i].id = i} : n \in 1..MaxIds}

Patches ==
    {<<>>,
     [generation |-> 1],
     [birthYear |-> MinYear],
     [hasParentIds |-> TRUE, parentIds |-> <<2>>],
     [hasParentIds |-> FALSE, parentIds |-> <<>>],
     [hasMarriages |-> TRUE, marriages |-> <<LocationEvent(2, 0, 0)>>],
     [hasMarriages |-> TRUE, marriages |-> <<LocationEvent(MaxIds, 0, 0), LocationEvent(1, 0, 0)>>],
     [hasMarriages |-> TRUE, marriages |-> <<>>],
     [hasDivorces |-> TRUE, divorces |-> <<LocationEvent(1, MinYear, 0)>>],
     [generation |-> 1, hasParentIds |-> TRUE, parentIds |-> <<MaxIds>>,
      hasDivorces |-> TRUE, divorces |-> <<LocationEvent(2, 0, 0)>>]}

PatchCall(fn, id, updates, before) ==
    [fn |-> fn, id |-> id, updates |-> updates, before |-> before]

InitPatch ==
    /\ ancestors \in PatchCollections
    /\ nextId = MaxIds + 1
    /\ now = 0
    /\ last = Mark("init", NoId, NoId, {})
    /\ q = Idle

CallPatch ==
    /\ q.fn = "idle"
    /\ Tick
    /\ \E id \in IdsOf(ancestors), updates \in Patches :
          /\ ancestors' = updateAncestorWith(ancestors, id, updates, now').ancestors
          /\ q' = PatchCall("patch", id, updates, ancestors)
    /\ UNCHANGED <<nextId, last>>

NextPatch == CallPatch

SpecPatch == InitPatch /\ [][NextPatch]_vars

IsPrefix(s, l) == Len(s) <= Len(l) /\ SubSeq(l, 1, Len(s)) = s

(* What a partner may gain: its old list is kept as a prefix and every     *)
(* Event appended names the patched person, who names the partner.         *)
GainedReciprocals(old, new, kind, patched) ==
    /\ IsPrefix(EventsOf(old, kind), EventsOf(new, kind))
    /\ \A k \in (Len(EventsOf(old, kind)) + 1)..Len(EventsOf(new, kind)) :
          /\ EventsOf(new, kind)[k].partnerId = patched.id
          /\ Names(EventsOf(patched, kind), old.id)

(* C24: update(id, patch) on an existing id gives a collection in which    *)
(* that Person is the old record with each patched field overriding the    *)
(* old value (lists replaced wholesale), id and createdAt unchanged and    *)
(* updatedAt not earlier than before; every other Person is unchanged      *)
(* except partners named in the patched Person's marriage or divorce       *)
(* Events, who may gain reciprocal Events; size and order are unchanged.   *)
C24_UpdateFrame ==
    q.fn = "patch" =>
        /\ Len(ancestors) = Len(q.before)
        /\ \A i \in DOMAIN q.before :
              /\ ancestors[i].id = q.before[i].id
              /\ ancestors[i].createdAt = q.before[i].createdAt
              /\ ancestors[i].updatedAt >= q.before[i].updatedAt
              /\ IF q.before[i].id = q.id
                 THEN \A f \in DOMAIN q.before[i] \ {"updatedAt"} :
                         ancestors[i][f] =
                            IF f \in DOMAIN q.updates THEN q.updates[f] ELSE q.before[i][f]
                 ELSE /\ \A f \in {"generation", "hasParentIds", "parentIds", "birthYear"} :
                            ancestors[i][f] = q.before[i][f]
                      /\ GainedReciprocals(q.before[i], ancestors[i], "marriages",
                                           PersonById(ancestors, q.id))
                      /\ GainedReciprocals(q.before[i], ancestors[i], "divorces",
                                           PersonById(ancestors, q.id))
                      /\ (ancestors[i].marriages = q.before[i].marriages
                            /\ ancestors[i].divorces = q.before[i].divorces)
                         => ancestors[i] = q.before[i]

(* A patch that replaces a non-empty marriages list by another one, after  *)
(* which a partner holds a new reciprocal Event and a third Person is      *)
(* untouched.                                                              *)
C24_Witness ==
    /\ q.fn = "patch"
    /\ "marriages" \in DOMAIN q.updates
    /\ PersonById(q.before, q.id).marriages # <<>>
    /\ PersonById(ancestors, q.id).marriages = q.updates.marriages
    /\ PersonById(ancestors, q.id).marriages # PersonById(q.before, q.id).marriages
    /\ \E i, j \in DOMAIN ancestors :
          /\ ancestors[i].id # q.id /\ ancestors[j].id # q.id
          /\ Len(ancestors[i].marriages) > Len(q.before[i].marriages)
          /\ ancestors[j] = q.before[j]

(* C25: generation ordering is an invariant of the graph: in every state   *)
(* reachable from a single generation-0 root by addParent, addChild,       *)
(* delete and eligibility-guarded saves, for every Person c and every id p *)
(* in c.parentIds that names an existing Person, p.generation >=           *)
(* c.generation.                                                           *)
C25_GenerationOrder ==
    \A c \in Persons(ancestors) :
        \A k \in DOMAIN c.parentIds :
            c.parentIds[k] \in IdsOf(ancestors)
               => PersonById(ancestors, c.parentIds[k]).generation >= c.generation

(* A saved selection linked two Persons of one generation, next to a       *)
(* parent created one generation up.                                       *)
C25_Witness ==
    /\ last.op \in {"saveEdit", "saveNew"}
    /\ \E c, d \in Persons(ancestors) :
          /\ \E k \in DOMAIN c.parentIds :
                /\ c.parentIds[k] \in IdsOf(ancestors)
                /\ PersonById(ancestors, c.parentIds[k]).generation = c.generation
          /\ \E k \in DOMAIN d.parentIds :
                /\ d.parentIds[k] \in IdsOf(ancestors)
                /\ PersonById(ancestors, d.parentIds[k]).generation > d.generation

(* ---------------- saving an edit, with typed birth years ---------------- *)
(* The handlers over persons whose birth-year field the user has typed     *)
(* into: q records the edit saved last: the person, the children ticked,   *)
(* the children it had before, and the time of the save.  The forms saved  *)
(* here carry parent and child selections and no events.                   *)
ChildrenOf(all, id) == {all[j].id : j \in {k \in DOMAIN all : Includes(all[k].parentIds, id)}}

SaveCall(editing, selected, linked, at) ==
    [fn |-> "idle", editing |-> editing, selected |-> selected, linked |-> linked, at |-> at]

FormSaveEdit ==
    /\ q.fn = "idle"
    /\ Tick
    /\ \E i \in DOMAIN ancestors :
      \E form \in {f \in Forms(ancestors[i], ancestors, {0}) :
                        f.marriages = <<>> /\ f.divorces = <<>>} :
        /\ ancestors' = saveExisting(ancestors, ancestors[i].id, form, now')
        /\ last' = Mark("saveEdit", ancestors[i].id, NoId, {})
        /\ q' = SaveCall(ancestors[i].id, form.selectedChildrenIds,
                         ChildrenOf(ancestors, ancestors[i].id), now')
        /\ UNCHANGED nextId

NextForm ==
    \/ SaveTypedYear
    \/ PortAddParent
    \/ PortAddChild
    \/ FormSaveEdit

(* The states the sessions start from: the single Self, and Self with two  *)
(* children added by handleAddChild into whose birth-year fields any of    *)
(* the TypedYears has been typed and saved.                                *)
InitForm ==
    LET typeYear(all, id, typed) ==
            saveExisting(all, id,
                FormData(PersonById(all, id).parentIds,
                         createLocationEvent(validateDateField(typed, Text(0, 0))),
                         PersonById(all, id).marriages, PersonById(all, id).divorces,
                         ChildrenOf(all, id)), 0)
        family == addChildOf(addChildOf(<<NewPerson(1, 0, 0)>>, 1, 2, 0), 1, 3, 0)
    IN /\ \/ ancestors = <<NewPerson(1, 0, 0)>> /\ nextId = 2
          \/ /\ \E y2 \in TypedYears, y3 \in TypedYears :
                   ancestors = typeYear(typeYear(family, 2, y2), 3, y3)
             /\ nextId = 4
       /\ now = 0
       /\ last = Mark("init", NoId, NoId, {})
       /\ q = Idle

SpecForm == InitForm /\ [][NextForm]_vars

EditSaved(w, t) == "editing" \in DOMAIN w /\ w.at = t

(* The step of a saved edit links exactly the selected children.           *)
ChildrenSavedStep ==
    /\ ChildrenOf(ancestors', q'.editing) = q'.selected \cap IdsOf(ancestors')
    /\ \A i \in DOMAIN ancestors :
          ancestors[i].id # q'.editing =>
             /\ ancestors'[i].id = ancestors[i].id
             /\ ancestors'[i].parentIds =
                   IF ancestors[i].id \in q'.selected
                      /\ ~Includes(ancestors[i].parentIds, q'.editing)
                   THEN Append(ancestors[i].parentIds, q'.editing)
                   ELSE IF ancestors[i].id \notin q'.selected
                   THEN Filter(ancestors[i].parentIds, q'.editing)
                   ELSE ancestors[i].parentIds
             /\ ancestors'[i].hasParentIds =
                   IF ancestors'[i].parentIds = ancestors[i].parentIds
                   THEN ancestors[i].hasParentIds
                   ELSE ancestors'[i].parentIds # <<>>

saveEffect(stored, all) == IF Len(all) > 0 THEN all ELSE stored

InitPersist ==
    /\ ancestors = <<NewPerson(1, 0, 0)>>
    /\ nextId = 2
    /\ now = 0
    /\ last = Mark("init", NoId, NoId, {})
    /\ q = [fn |-> "idle", stored |-> <<NewPerson(1, 0, 0)>>]

PersistAdd ==
    /\ Tick
    /\ nextId <= MaxIds
    /\ \/ \E i \in DOMAIN ancestors :
             ancestors' = addParentOf(ancestors, ancestors[i].id, nextId, now')
       \/ \E i \in DOMAIN ancestors :
             ancestors' = addChildOf(ancestors, ancestors[i].id, nextId, now')
       \/ \E y \in BirthYears :
             ancestors' = saveNew(ancestors, nextId, FormData(<<>>, y, <<>>, <<>>, {}), now')
    /\ nextId' = nextId + 1
    /\ last' = Mark("add", NoId, nextId, {})
    /\ q' = [q EXCEPT !.stored = saveEffect(q.stored, ancestors')]

PersistDelete ==
    /\ Tick
    /\ \E i \in DOMAIN ancestors :
        /\ ancestors' = deleteAncestorCall(ancestors, ancestors[i].id, now').ancestors
        /\ last' = Mark("delete", ancestors[i].id, NoId, {})
    /\ q' = [q EXCEPT !.stored = saveEffect(q.stored, ancestors')]
    /\ UNCHANGED nextId

NextPersist == PersistAdd \/ PersistDelete

SpecPersist == InitPersist /\ [][NextPersist]_vars

(* C27: after every committed store mutation, deletion of the last         *)
(* remaining Person included, the persisted snapshot's people equal the    *)
(* in-memory collection, so a reload restores exactly that collection.     *)
C27_PersistedEqualsMemory ==
    /\ q.stored = ancestors
    /\ initializeData(Payload("none", <<>>),
                      Payload("doc", [i \in DOMAIN q.stored |-> toJson(q.stored[i])]),
                      FALSE, nextId, now) = ancestors

RefersTo(person, id) ==
    \/ Includes(person.parentIds, id)
    \/ Names(person.marriages, id)
    \/ Names(person.divorces, id)

(* C28: delete(X) changes only what references X: every remaining Person   *)
(* whose parentIds does not contain X.id and whose marriages and divorces  *)
(* hold no Event with partnerId = X.id is left completely unchanged, its   *)
(* updatedAt included, and the remaining Persons keep their relative       *)
(* order.                                                                  *)
C28_DeleteFrame ==
    [][last'.op = "delete" =>
          /\ [i \in DOMAIN ancestors' |-> ancestors'[i].id]
                = Filter([i \in DOMAIN ancestors |-> ancestors[i].id], last'.id)
          /\ \A i \in DOMAIN ancestors :
                (ancestors[i].id # last'.id /\ ~RefersTo(ancestors[i], last'.id))
                   => PersonById(ancestors', ancestors[i].id) = ancestors[i]]_vars

(* ------------------- handleAddChild with any argument ------------------- *)
(* handleAddChild takes the id as a string: the id of a Person of the      *)
(* collection or, here MaxIds + 1, an id that names nobody.                *)
HandleAddChildAny ==
    /\ Tick
    /\ nextId <= MaxIds
    /\ \E parentId \in IdsOf(ancestors) \cup {MaxIds + 1} :
        /\ ancestors' = addChildOf(ancestors, parentId, nextId, now')
        /\ nextId' = nextId + 1
        /\ last' = Mark("addChild", parentId, nextId, {})
        /\ q' = q

NextAnyId == Next \/ HandleAddChildAny

SpecAnyId == Init /\ [][NextAnyId]_vars

(* C29: referential integrity: in every state reachable by add, addParent, *)
(* addChild with any id argument, saves with selections taken from the     *)
(* current collection, and delete, every id in any Person's parentIds and  *)
(* every partnerId of any marriage or divorce Event names a Person of the  *)
(* collection.                                                             *)
C29_ReferentialIntegrity ==
    \A p \in Persons(ancestors) :
        /\ SeqToSet(p.parentIds) \subseteq IdsOf(ancestors)
        /\ \A kind \in {"marriages", "divorces"} :
              \A k \in DOMAIN EventsOf(p, kind) :
                 EventsOf(p, kind)[k].partnerId \in IdsOf(ancestors) \cup {NoId}

(* C30: in every reachable state, after a successful import included, no   *)
(* two Persons of the collection share an id, and a Person just added has  *)
(* an id that no other Person of the collection has.                       *)
C30_UniqueIds ==
    /\ \A i, j \in DOMAIN ancestors : ancestors[i].id = ancestors[j].id => i = j
    /\ last.newId # NoId =>
          Cardinality({i \in DOMAIN ancestors : ancestors[i].id = last.newId}) <= 1

====
